---- MODULE Spec2Model ----
(***************************************************************************)
(* A model of toluol-proto (DNS wire codec, canonical name order, DNSSEC   *)
(* validation) and of the toluol validator/resolver drivers.               *)
(*                                                                         *)
(* Bytes are integers 0..255, buffers are sequences of bytes, a Cursor is  *)
(* a buffer with a 0-based position.  A Name is the sequence of its        *)
(* labels (leftmost first, the root label left out), a label the sequence  *)
(* of its chars (code points).  Results of fallible functions are records  *)
(* with an err field that is "Ok" or the name of the error variant.        *)
(***************************************************************************)
EXTENDS Integers, Sequences, FiniteSets, TLC

VARIABLES
    msg,            \* wire machine: the message buffer (Vec<u8>)
    cursor,         \* wire machine: position of the Cursor over msg
    items,          \* wire machine: what was written to msg, in order
    parsed,         \* wire machine: the outcome of the last parse
    names,          \* order machine: the Vec<Name> being sorted
    pending,        \* order machine: names not yet pushed
    cmp_args,       \* order machine: the three names to compare, or <<>>
    cmp_res,        \* order machine: the results of comparing them, or <<>>
    message,        \* message machine: the Message to send
    encoded,        \* message machine: Message::encode of it, once encoded
    hdr_parsed,     \* message machine: Header::parse of the encoded bytes
    msg_parsed,     \* message machine: Message::parse of the encoded bytes
    dnskey,         \* key machine: a DNSKEY
    tag,            \* key machine: what dnskey.key_tag() returned
    rec_in,         \* record machine: a record and the arguments of canonicalize
    rec_out,        \* record machine: the result and the record after the call
    rrset,          \* validation machine: the RrSet (records, record_type, class)
    rrsig_record,   \* validation machine: the RRSIG record passed to validate
    dnskey_record,  \* validation machine: the DNSKEY record passed to validate
    ignore_time,    \* validation machine: the ignore_time argument
    clock,          \* validation machine: what Utc::now() returns, as a u32
    signed,         \* validation machine: <<key, data, signature>> triples that verify
    received,       \* validation machine: the records and the RRSIG ttl as received
    call,           \* validation machine: position, locals and result of validate
    drv,            \* driver machine: position and locals of validate_result
    cached,         \* cache machine: a record, with its rdata and encoded_rdata
    written,        \* cache machine: what the last encode_into of the record used
    types,          \* bitmap machine: the record types of an NSEC record
    bitmap,         \* bitmap machine: the bytes encode_type_bitmap_into wrote
    bitmap_parsed,  \* bitmap machine: what parse_type_bitmap returned for them
    serials,        \* serial machine: two u32 serial numbers
    serial_res,     \* serial machine: serial_lt of them, in both directions
    input,          \* raw machine: received bytes, a start offset and a Compression
    name_res,       \* raw machine: what Name::parse returned for them
    subject,        \* canonical-form machine: a Name or an Rdata value
    canonical,      \* canonical-form machine: it after each canonicalize() so far
    zone_args,      \* zone machine: two names, a and b
    zone_res,       \* zone machine: a.zone_of(&b) and a == b
    metadata,       \* resolver machine: the QueryMetadata given to iter::query
    frames,         \* resolver machine: the activations of resolve, innermost last
    runs,           \* resolver machine: the calls of resolve made by query, with their results
    query_res,      \* resolver machine: what query returned, once it did
    sends,          \* resolver machine: number of queries sent so far
    send_args,      \* send machine: a Nameserver and a ConnectionType
    send_res,       \* send machine: the outcome of send_query and the Nameserver after it
    name_val,       \* name machine: a Name built by the public operations
    name_op,        \* name machine: the last operation, its result and the Name before it
    ops,            \* name machine: number of operations applied
    sec_msg,        \* section machine: the bytes of a section of two records
    sec_rec,        \* section machine: type, RDLENGTH, length of the fields and RDATA start of the first record
    sec_pos,        \* section machine: position of the cursor
    sec_out         \* section machine: what Record::parse returned, call by call

wireVars == <<msg, cursor, items, parsed>>
ordVars  == <<names, pending, cmp_args, cmp_res>>
msgVars  == <<message, encoded, hdr_parsed, msg_parsed>>
keyVars  == <<dnskey, tag>>
recVars  == <<rec_in, rec_out>>
valVars  == <<rrset, rrsig_record, dnskey_record, ignore_time, clock, signed, received, call>>
cacheVars == <<cached, written>>
bmVars == <<types, bitmap, bitmap_parsed>>
serVars == <<serials, serial_res>>
rawVars == <<input, name_res>>
canVars == <<subject, canonical>>
zoneVars == <<zone_args, zone_res>>
iterVars == <<metadata, frames, runs, query_res, sends>>
sendVars == <<send_args, send_res>>
opsVars == <<name_val, name_op, ops>>
secVars == <<sec_msg, sec_rec, sec_pos, sec_out>>
vars == <<wireVars, ordVars, msgVars, keyVars, recVars, valVars, drv, cacheVars, bmVars, serVars,
          rawVars, canVars,
          zoneVars,
          iterVars,
          sendVars,
          opsVars,
          secVars>>

\* the value of a variable that holds nothing yet
NoParse == [kind |-> "none"]

WireIdle == msg = <<>> /\ cursor = 0 /\ items = <<>> /\ parsed = NoParse

OrdIdle == names = <<>> /\ pending = {} /\ cmp_args = <<>> /\ cmp_res = <<>>

MsgIdle == message = NoParse /\ encoded = NoParse /\ hdr_parsed = NoParse /\ msg_parsed = NoParse

KeyIdle == dnskey = NoParse /\ tag = NoParse

RecIdle == rec_in = NoParse /\ rec_out = NoParse

ValIdle ==
    /\ rrset = NoParse /\ rrsig_record = NoParse /\ dnskey_record = NoParse
    /\ ignore_time = FALSE /\ clock = <<0, 0>> /\ signed = {} /\ received = NoParse
    /\ call = NoParse

DrvIdle == drv = NoParse

CacheIdle == cached = NoParse /\ written = NoParse

BmIdle == types = {} /\ bitmap = NoParse /\ bitmap_parsed = NoParse

SerIdle == serials = <<>> /\ serial_res = NoParse

RawIdle == input = NoParse /\ name_res = NoParse

CanIdle == subject = NoParse /\ canonical = <<>>

ZoneIdle == zone_args = NoParse /\ zone_res = NoParse

IterIdle == metadata = NoParse /\ frames = <<>> /\ runs = <<>> /\ query_res = NoParse /\ sends = 0

SendIdle == send_args = NoParse /\ send_res = NoParse

OpsIdle == name_val = <<>> /\ name_op = NoParse /\ ops = 0

SecIdle == sec_msg = <<>> /\ sec_rec = NoParse /\ sec_pos = 0 /\ sec_out = <<>>

\* every machine but `mach` is at rest; the driver machine works on the
\* variables of the validation machine
IdleExcept(mach) ==
    /\ (mach # "wire" => WireIdle)
    /\ (mach # "ord" => OrdIdle)
    /\ (mach # "msg" => MsgIdle)
    /\ (mach # "key" => KeyIdle)
    /\ (mach # "rec" => RecIdle)
    /\ (mach \notin {"val", "drv"} => ValIdle)
    /\ (mach # "drv" => DrvIdle)
    /\ (mach # "cache" => CacheIdle)
    /\ (mach # "bm" => BmIdle)
    /\ (mach # "ser" => SerIdle)
    /\ (mach # "raw" => RawIdle)
    /\ (mach # "can" => CanIdle)
    /\ (mach # "zone" => ZoneIdle)
    /\ (mach # "iter" => IterIdle)
    /\ (mach # "send" => SendIdle)
    /\ (mach # "ops" => OpsIdle)
    /\ (mach # "sec" => SecIdle)

\* a step of machine `mach` leaves the other machines alone
Frame(mach) ==
    /\ (mach # "wire" => UNCHANGED wireVars)
    /\ (mach # "ord" => UNCHANGED ordVars)
    /\ (mach # "msg" => UNCHANGED msgVars)
    /\ (mach # "key" => UNCHANGED keyVars)
    /\ (mach # "rec" => UNCHANGED recVars)
    /\ (mach \notin {"val", "drv"} => UNCHANGED valVars)
    /\ (mach # "drv" => UNCHANGED drv)
    /\ (mach # "cache" => UNCHANGED cacheVars)
    /\ (mach # "bm" => UNCHANGED bmVars)
    /\ (mach # "ser" => UNCHANGED serVars)
    /\ (mach # "raw" => UNCHANGED rawVars)
    /\ (mach # "can" => UNCHANGED canVars)
    /\ (mach # "zone" => UNCHANGED zoneVars)
    /\ (mach # "iter" => UNCHANGED iterVars)
    /\ (mach # "send" => UNCHANGED sendVars)
    /\ (mach # "ops" => UNCHANGED opsVars)
    /\ (mach # "sec" => UNCHANGED secVars)

-----------------------------------------------------------------------------
(* Bounds of the model *)

\* longest name (in labels) drawn as an input
MaxLabels == 2

\* longest DNSKEY public key (in bytes) drawn as an input
MaxKeyLen == 3

\* longest byte string, of those enumerated in full, given to Name::parse
MaxRawLen == 4

\* most queries the resolver sends in one call of iter::query
MaxSends == 3

\* most bytes between the end of the fields of an RDATA and its declared end
MaxPad == 1

\* most bytes by which a declared RDLENGTH falls short of the fields
MaxCut == 4

\* most operations applied to one Name
MaxOps == 2

\* largest RRSIG labels value passed to canonicalize
MaxRrsigLabels == 4

\* nesting of Name::parse calls the stack has room for
StackDepth == 3

-----------------------------------------------------------------------------
(* Integer and byte helpers *)

Min(a, b) == IF a < b THEN a ELSE b

RECURSIVE Pow2(_)
Pow2(n) == IF n = 0 THEN 1 ELSE 2 * Pow2(n - 1)

\* bit i (0 = least significant) of the unsigned integer v
Bit(v, i) == (v \div Pow2(i)) % 2

U16Bytes(v) == <<(v \div 256) % 256, v % 256>>

\* a u32 is the pair <<high 16 bits, low 16 bits>>
U32(n) == <<(n \div 65536) % 65536, n % 65536>>

U32Lt(a, b) == a[1] < b[1] \/ (a[1] = b[1] /\ a[2] < b[2])

U32Min(a, b) == IF U32Lt(b, a) THEN b ELSE a

\* u32::wrapping_sub
U32WrappingSub(a, b) ==
    LET borrow == IF a[2] < b[2] THEN 1 ELSE 0
    IN  <<(a[1] - b[1] - borrow + 65536) % 65536, (a[2] - b[2] + 65536) % 65536>>

U32Bytes(v) == U16Bytes(v[1]) \o U16Bytes(v[2])

U32Succ(v) == IF v[2] = 65535 THEN <<(v[1] + 1) % 65536, 0>> ELSE <<v[1], v[2] + 1>>

RECURSIVE Flatten(_)
Flatten(ss) == IF ss = <<>> THEN <<>> ELSE Head(ss) \o Flatten(Tail(ss))

RECURSIVE SumSeq(_)
SumSeq(s) ==
    IF s = <<>> THEN 0
    ELSE IF Len(s) = 1 THEN s[1]
    ELSE SumSeq(SubSeq(s, 1, Len(s) \div 2)) + SumSeq(SubSeq(s, Len(s) \div 2 + 1, Len(s)))

Repeat(x, n) == [i \in 1..n |-> x]

\* F applied to the value of v, which is computed once
Bind(v, F(_)) == CHOOSE r \in {F(x) : x \in {v}} : TRUE

\* Cursor::read_u8: one byte at position p, or an I/O error at the end
ReadU8(m, p) ==
    IF p < Len(m) THEN [err |-> "Ok", val |-> m[p + 1], pos |-> p + 1]
    ELSE [err |-> "Io", val |-> 0, pos |-> p]

\* Cursor::read_u16::<NetworkEndian>
ReadU16(m, p) ==
    IF p + 2 <= Len(m) THEN [err |-> "Ok", val |-> m[p + 1] * 256 + m[p + 2], pos |-> p + 2]
    ELSE [err |-> "Io", val |-> 0, pos |-> p]

\* Cursor::read_u32::<NetworkEndian>
ReadU32(m, p) ==
    IF p + 4 <= Len(m)
    THEN [err |-> "Ok",
          val |-> <<m[p + 1] * 256 + m[p + 2], m[p + 3] * 256 + m[p + 4]>>,
          pos |-> p + 4]
    ELSE [err |-> "Io", val |-> <<0, 0>>, pos |-> p]

\* Cursor::read_exact of n bytes
ReadExact(m, p, n) ==
    IF p + n <= Len(m) THEN [err |-> "Ok", val |-> SubSeq(m, p + 1, p + n), pos |-> p + n]
    ELSE [err |-> "Io", val |-> <<>>, pos |-> p]

-----------------------------------------------------------------------------
(* Name *)

\* str::as_bytes of a label: the UTF-8 encoding of its chars (chars come from
\* ASCII strings or from `byte as char`, so they are below 256)
Utf8Char(c) == IF c < 128 THEN <<c>> ELSE <<192 + (c \div 64), 128 + (c % 64)>>

Utf8(label) == Flatten([i \in 1..Len(label) |-> Utf8Char(label[i])])

\* char::is_ascii_alphanumeric
IsAsciiAlphanumeric(c) == c \in 48..57 \/ c \in 65..90 \/ c \in 97..122

\* Name::check_label on a non-empty label: TRUE iff it returns Ok
CheckLabel(label) ==
    LET ok_edge(c) == IsAsciiAlphanumeric(c) \/ c = 95
        ok_mid(c)  == IsAsciiAlphanumeric(c) \/ c = 95 \/ c = 45
    IN  /\ ok_edge(label[1])
        /\ \A i \in 1..(Len(label) - 1) : ok_mid(label[i])
        /\ ok_edge(label[Len(label)])

Name_root == <<>>

Name_is_root(n) == n = <<>>

Name_is_wildcard(n) == IF Len(n) > 0 THEN n[1] = <<42>> ELSE FALSE

Name_label_count(n) ==
    IF Name_is_root(n) THEN 0
    ELSE IF Name_is_wildcard(n) THEN (Len(n) - 1) % 256
    ELSE Len(n) % 256

\* Name::string_len
Name_string_len(n) ==
    IF Name_is_root(n) THEN 1
    ELSE SumSeq([i \in 1..Len(n) |-> Len(Utf8(n[i])) + 1]) - 1

\* The names Name::from_ascii accepts, as label sequences: every label is
\* non-empty, at most 63 bytes, passes check_label unless it is a first label
\* "*", and the dotted string is at most 255 bytes long
FromAsciiAccepts(n) ==
    /\ \A i \in 1..Len(n) :
          /\ Len(n[i]) >= 1
          /\ Len(n[i]) <= 63
          /\ ((i = 1 /\ n[i] = <<42>>) \/ CheckLabel(n[i]))
    /\ Name_string_len(n) <= 255

Name_pop_front_label(n) == IF n = <<>> THEN n ELSE Tail(n)

Name_prepend_wildcard(n) == IF ~Name_is_wildcard(n) THEN <<<<42>>>> \o n ELSE n

Name_make_wildcard(n) ==
    IF ~Name_is_root(n) /\ ~Name_is_wildcard(n)
    THEN Name_prepend_wildcard(Name_pop_front_label(n))
    ELSE n

\* a case change that is not a projection: letters swap case
ToAsciiLowercase_mut_swap_case(c) ==
    IF c \in 65..90 THEN c + 32 ELSE IF c \in 97..122 THEN c - 32 ELSE c

\* u8::to_ascii_lowercase / char::to_ascii_lowercase
ToAsciiLowercase(c) == IF c \in 65..90 THEN c + 32 ELSE c

LabelLower(label) == [i \in 1..Len(label) |-> ToAsciiLowercase(label[i])]

Name_canonicalize(n) == [i \in 1..Len(n) |-> LabelLower(n[i])]

\* <[u8] as Ord>::cmp: lexicographic, a proper prefix sorts first
RECURSIVE BytesCmp(_, _)
BytesCmp(a, b) ==
    IF a = <<>> /\ b = <<>> THEN "Equal"
    ELSE IF a = <<>> THEN "Less"
    ELSE IF b = <<>> THEN "Greater"
    ELSE IF Head(a) < Head(b) THEN "Less"
    ELSE IF Head(a) > Head(b) THEN "Greater"
    ELSE BytesCmp(Tail(a), Tail(b))

\* <Name as Ord>::cmp: i and j count the labels still to compare, taken from
\* the right
RECURSIVE NameCmpFrom(_, _, _, _)
NameCmpFrom(a, i, b, j) ==
    IF i = 0 /\ j = 0 THEN "Equal"
    ELSE IF i = 0 THEN "Less"
    ELSE IF j = 0 THEN "Greater"
    ELSE LET c == BytesCmp(Utf8(LabelLower(a[i])), Utf8(LabelLower(b[j])))
         IN  IF c = "Equal" THEN NameCmpFrom(a, i - 1, b, j - 1) ELSE c

\* a cmp that compares the labels as stored, without ASCII lowercasing
Name_cmp_mut_no_fold(a, b) ==
    LET RECURSIVE go(_, _)
        go(i, j) ==
            IF i = 0 /\ j = 0 THEN "Equal"
            ELSE IF i = 0 THEN "Less"
            ELSE IF j = 0 THEN "Greater"
            ELSE LET c == BytesCmp(Utf8(a[i]), Utf8(b[j]))
                 IN  IF c = "Equal" THEN go(i - 1, j - 1) ELSE c
    IN  go(Len(a), Len(b))

Name_cmp(a, b) == NameCmpFrom(a, Len(a), b, Len(b))

\* <Name as PartialEq>::eq
Name_eq(a, b) == Name_cmp(a, b) = "Equal"

\* Name::append_name
Name_append_name(n, other) == n \o other

\* Name::prepend_name
Name_prepend_name(n, other) == other \o n

\* Name::append_label with a non-empty label: the result and the Name after
Name_append_label(n, label) ==
    IF ~CheckLabel(label) THEN [err |-> "NameInvalidChars", name |-> n]
    ELSE [err |-> "Ok", name |-> Append(n, label)]

\* Name::prepend_label with a non-empty label
Name_prepend_label(n, label) ==
    IF ~CheckLabel(label) THEN [err |-> "NameInvalidChars", name |-> n]
    ELSE [err |-> "Ok", name |-> <<label>> \o n]

\* Name::pop_back_label
Name_pop_back_label(n) == IF n = <<>> THEN n ELSE SubSeq(n, 1, Len(n) - 1)

\* Name::zone_of: labels are compared as strings, from the right
Name_zone_of(a, b) ==
    IF Name_label_count(a) > Name_label_count(b) THEN FALSE
    ELSE \A k \in 0..(Min(Len(a), Len(b)) - 1) : a[Len(a) - k] = b[Len(b) - k]

\* the bytes Name::encode_into writes
NameWire(n) ==
    Flatten([i \in 1..Len(n) |-> <<Len(Utf8(n[i])) % 256>> \o Utf8(n[i])]) \o <<0>>

Name_encode_into_mut_count(n) ==
    [bytes |-> NameWire(n), written |-> Len(NameWire(n)) - 1]

\* Name::encode_into: the bytes appended to the buffer and the returned count
Name_encode_into(n) ==
    [bytes   |-> NameWire(n),
     written |-> ((SumSeq([i \in 1..Len(n) |-> 1 + Len(Utf8(n[i]))]) % 65536) + 1) % 65536]

\* Name::parse, from the length octet at position p with `labels` collected so
\* far.  A pointer makes a nested call (depth counts the calls the stack still
\* has room for); the seek back to the byte after the pointer is the returned
\* position.
RECURSIVE Name_parse_from(_, _, _, _, _)
Name_parse_from(m, p, compression, labels, depth) ==
    LET fail(e, q) == [err |-> e, labels |-> <<>>, pos |-> q]
        pointer(c) ==
            Bind(ReadU8(m, c.pos), LAMBDA lo :
                IF lo.err # "Ok" THEN fail("Io", c.pos)
                ELSE LET offset == (c.val % 64) * 256 + lo.val
                     IN  IF depth = 0 THEN fail("StackOverflow", offset)
                         ELSE Bind(Name_parse_from(m, offset, compression, <<>>, depth - 1),
                                   LAMBDA sub :
                                       IF sub.err # "Ok" THEN sub
                                       ELSE [err |-> "Ok", labels |-> labels \o sub.labels,
                                             pos |-> lo.pos]))
        label(c) ==
            Bind(ReadExact(m, c.pos, c.val), LAMBDA body :
                IF body.err # "Ok" THEN fail("Io", c.pos)
                ELSE Name_parse_from(m, body.pos, compression, Append(labels, body.val), depth))
    IN  Bind(ReadU8(m, p), LAMBDA c :
            IF c.err # "Ok" THEN fail("Io", p)
            ELSE IF c.val = 0 THEN [err |-> "Ok", labels |-> labels, pos |-> c.pos]
            ELSE IF (c.val \div 64) % 4 # 0
            THEN IF compression = "Prohibited" THEN fail("CompressionProhibited", c.pos)
                 ELSE pointer(c)
            ELSE IF Bit(c.val, 6) # 0 \/ Bit(c.val, 7) # 0 THEN fail("InvalidLabelType", c.pos)
            ELSE label(c))

\* a Name::parse that forgets to seek back after following a pointer
RECURSIVE Name_parse_mut_no_seek_back(_, _, _)
Name_parse_mut_no_seek_back(m, p, compression) ==
    LET r == Name_parse_from(m, p, compression, <<>>, StackDepth)
        RECURSIVE EndOf(_)
        EndOf(q) == IF q >= Len(m) THEN q
                    ELSE IF m[q + 1] = 0 THEN q + 1
                    ELSE IF m[q + 1] >= 192 THEN EndOf((m[q + 1] % 64) * 256 + m[q + 2])
                    ELSE EndOf(q + 1 + m[q + 1])
    IN  IF r.err = "Ok" THEN [r EXCEPT !.pos = EndOf(p)] ELSE r

\* a Name::parse that rejects every pointer
Name_parse_mut_prohibit(m, p, compression) ==
    Name_parse_from(m, p, "Prohibited", <<>>, StackDepth)

Name_parse(m, p, compression) == Name_parse_from(m, p, compression, <<>>, StackDepth)

-----------------------------------------------------------------------------
(* Header *)

Opcodes == <<"QUERY", "IQUERY", "STATUS", "NOTIFY", "UPDATE", "DSO">>

Opcode_encode(o) ==
    CASE o = "QUERY" -> 0
      [] o = "IQUERY" -> 1
      [] o = "STATUS" -> 2
      [] o = "NOTIFY" -> 4
      [] o = "UPDATE" -> 5
      [] o = "DSO" -> 6

Opcode_parse(val) ==
    IF \E i \in 1..Len(Opcodes) : Opcode_encode(Opcodes[i]) = val
    THEN [err |-> "Ok", val |-> Opcodes[CHOOSE i \in 1..Len(Opcodes) : Opcode_encode(Opcodes[i]) = val]]
    ELSE [err |-> "InvalidOpcode", val |-> "QUERY"]

\* the RCODE variants, and the twelve-bit value of each
RCodes == <<"NOERROR", "FORMERR", "SERVFAIL", "NXDOMAIN", "NOTIMP", "REFUSED", "YXDOMAIN",
            "YXRRSET", "NXRRSET", "NOTAUTH", "NOTZONE", "DSOTYPENI", "BADVERSBADSIG", "BADKEY",
            "BADTIME", "BADMODE", "BADNAME", "BADALG", "BADTRUNC", "BADCOOKIE">>

RCodeValue(r) ==
    LET i == CHOOSE k \in 1..Len(RCodes) : RCodes[k] = r
    IN  IF i <= 12 THEN i - 1 ELSE i + 3

\* RCode::encode: the lower four bits only
RCode_encode(r) == RCodeValue(r) % 16

RCode_parse(val) ==
    IF \E i \in 1..Len(RCodes) : RCodeValue(RCodes[i]) = val
    THEN [err |-> "Ok", val |-> RCodes[CHOOSE i \in 1..Len(RCodes) : RCodeValue(RCodes[i]) = val]]
    ELSE [err |-> "InvalidRcode", val |-> "NOERROR"]

Class_encode(c) ==
    CASE c = "IN" -> 1
      [] c = "CH" -> 3
      [] c = "HS" -> 4
      [] c = "NONE" -> 254
      [] c = "ANY" -> 255

Class_parse(val) ==
    CASE val = 1 -> [err |-> "Ok", val |-> "IN"]
      [] val = 3 -> [err |-> "Ok", val |-> "CH"]
      [] val = 4 -> [err |-> "Ok", val |-> "HS"]
      [] val = 254 -> [err |-> "Ok", val |-> "NONE"]
      [] val = 255 -> [err |-> "Ok", val |-> "ANY"]
      [] OTHER -> [err |-> "InvalidClass", val |-> "IN"]

HeaderFlags_from_flags(flags) ==
    [aa |-> Bit(flags, 10) # 0,
     tc |-> Bit(flags, 9) # 0,
     rd |-> Bit(flags, 8) # 0,
     ra |-> Bit(flags, 8) # 0,
     ad |-> Bit(flags, 5) # 0,
     cd |-> Bit(flags, 4) # 0]

HeaderFlags_as_flags(f) ==
    LET b(x) == IF x THEN 1 ELSE 0
    IN  (b(f.aa) * 1024 + b(f.tc) * 512 + b(f.rd) * 256 + b(f.ra) * 128 + b(f.ad) * 32
            + b(f.cd) * 16) % 65536

\* Header::encode_into; rcode is "None" or an RCODE variant
Header_encode(h) ==
    LET qr == IF h.qr THEN 1 ELSE 0
        opcode == Opcode_encode(h.opcode)
        rcode == IF h.rcode # "None" THEN RCode_encode(h.rcode) ELSE 0
        line_two == (qr * 32768 + opcode * 2048 + HeaderFlags_as_flags(h.flags) + rcode) % 65536
    IN  U16Bytes(h.msg_id) \o U16Bytes(line_two) \o U16Bytes(h.qdcount) \o U16Bytes(h.ancount)
            \o U16Bytes(h.nscount) \o U16Bytes(h.arcount)

\* Header::parse at position p of m
Header_parse(m, p) ==
    LET msg_id == ReadU16(m, p)
        line_two == ReadU16(m, msg_id.pos)
        l2 == line_two.val
        qr == Bit(l2, 15)
        opcode == Opcode_parse((l2 \div 2048) % 16)
        \* line_two & 0b0000011110110000
        masked == Bit(l2, 10) * 1024 + Bit(l2, 9) * 512 + Bit(l2, 8) * 256 + Bit(l2, 7) * 128
                      + Bit(l2, 5) * 32 + Bit(l2, 4) * 16
        rcode == RCode_parse(l2 % 16)
        qdcount == ReadU16(m, line_two.pos)
        ancount == ReadU16(m, qdcount.pos)
        nscount == ReadU16(m, ancount.pos)
        arcount == ReadU16(m, nscount.pos)
        fail(e, q) == [err |-> e, val |-> NoParse, pos |-> q]
    IN  IF msg_id.err # "Ok" \/ line_two.err # "Ok" THEN fail("Io", p)
        ELSE IF opcode.err # "Ok" THEN fail(opcode.err, line_two.pos)
        ELSE IF rcode.err # "Ok" THEN fail(rcode.err, line_two.pos)
        ELSE IF arcount.err # "Ok" THEN fail("Io", line_two.pos)
        ELSE [err |-> "Ok",
              val |-> [msg_id |-> msg_id.val, qr |-> qr # 0, opcode |-> opcode.val,
                       flags |-> HeaderFlags_from_flags(masked),
                       rcode |-> IF qr # 0 THEN rcode.val ELSE "None",
                       qdcount |-> qdcount.val, ancount |-> ancount.val,
                       nscount |-> nscount.val, arcount |-> arcount.val],
              pos |-> arcount.pos]

-----------------------------------------------------------------------------
(* RDATA.  An Rdata value is [t |-> code of its variant, f |-> its fields in
   declaration order]; Rdata::Unknown has t = 0 and one field, the bytes. *)

\* the codes of the RecordType variants the model uses
RecordType_code(n) ==
    CASE n = "A" -> 1
      [] n = "NS" -> 2
      [] n = "CNAME" -> 5
      [] n = "SOA" -> 6
      [] n = "PTR" -> 12
      [] n = "MX" -> 15
      [] n = "RP" -> 17
      [] n = "SRV" -> 33
      [] n = "NAPTR" -> 35
      [] n = "DNAME" -> 39
      [] n = "OPT" -> 41
      [] n = "RRSIG" -> 46
      [] n = "NSEC" -> 47
      [] n = "DNSKEY" -> 48

\* what <T as RdataTrait>::parse_rdata reads and encode_rdata_into writes, field
\* by field: u8/u16/u32 are big-endian integers, ipv4 four octets, str a
\* character string, name a
\* Name parsed with Compression::Allowed, name_nc one parsed with
\* Compression::Prohibited, rest the bytes up to rdlength, bitmap an NSEC type
\* bitmap.  A type without a row is parsed as Rdata::Unknown.
RdataLayout(t) ==
    CASE t = 1 -> << <<"address", "ipv4">> >>
      [] t = 2 -> << <<"name", "name">> >>
      [] t = 5 -> << <<"cname", "name">> >>
      [] t = 6 -> << <<"mname", "name">>, <<"rname", "name">>, <<"serial", "u32">>,
                     <<"refresh", "u32">>, <<"retry", "u32">>, <<"expire", "u32">>,
                     <<"minimum", "u32">> >>
      [] t = 12 -> << <<"location", "name">> >>
      [] t = 15 -> << <<"preference", "u16">>, <<"exchange", "name">> >>
      [] t = 17 -> << <<"mbox", "name">>, <<"txt", "name">> >>
      [] t = 33 -> << <<"priority", "u16">>, <<"weight", "u16">>, <<"port", "u16">>,
                      <<"target", "name_nc">> >>
      [] t = 35 -> << <<"order", "u16">>, <<"preference", "u16">>, <<"flags", "str">>,
                      <<"services", "str">>, <<"regexp", "str">>,
                      <<"replacement", "name_nc">> >>
      [] t = 39 -> << <<"target", "name">> >>
      [] t = 46 -> << <<"type_covered", "u16">>, <<"algorithm", "u8">>, <<"labels", "u8">>,
                      <<"original_ttl", "u32">>, <<"signature_expiration", "u32">>,
                      <<"signature_inception", "u32">>, <<"key_tag", "u16">>,
                      <<"signer_name", "name_nc">>, <<"signature", "rest">> >>
      [] t = 47 -> << <<"next_domain_name", "name_nc">>, <<"types", "bitmap">> >>
      [] OTHER -> << <<"data", "rest">> >>

\* the variant parse_rdata builds for a record of type t
RdataVariant(t) ==
    IF t \in {1, 2, 5, 6, 12, 15, 17, 33, 35, 39, 46, 47} THEN t ELSE 0

\* the field of x called n
Field(x, n) ==
    LET layout == RdataLayout(x.t)
    IN  x.f[CHOOSE i \in 1..Len(layout) : layout[i][1] = n]

\* rdata::parse_string
parse_string(m, p) ==
    LET length == ReadU8(m, p)
        string == ReadExact(m, length.pos, length.val)
    IN  IF length.err # "Ok" \/ string.err # "Ok" THEN [err |-> "Io", val |-> <<>>, pos |-> p]
        ELSE IF \E i \in 1..Len(string.val) : string.val[i] >= 128
        THEN [err |-> "NonAsciiString", val |-> <<>>, pos |-> string.pos]
        ELSE string

\* the types of one window block: bit j (from the left) of byte i is type
\* window * 256 + i * 8 + j; k runs over the bits
RECURSIVE BitTypes(_, _, _, _)
BitTypes(window, bytes, lo, hi) ==
    IF lo > hi THEN <<>>
    ELSE IF lo = hi
    THEN IF Bit(bytes[(lo \div 8) + 1], 7 - (lo % 8)) # 0 THEN <<window * 256 + lo>> ELSE <<>>
    ELSE BitTypes(window, bytes, lo, (lo + hi) \div 2)
            \o BitTypes(window, bytes, (lo + hi) \div 2 + 1, hi)

BlockTypes(window, bytes, k) == BitTypes(window, bytes, k, 8 * Len(bytes) - 1)

\* NSEC::parse_type_bitmap, for blocks of at most 32 bytes (the u8 arithmetic
\* on longer blocks overflows)
RECURSIVE parse_type_bitmap(_, _, _, _, _)
parse_type_bitmap(m, p, len_read, rdlength, available_types) ==
    IF len_read >= rdlength THEN [err |-> "Ok", val |-> available_types, pos |-> p]
    ELSE LET window_number == ReadU8(m, p)
             bitmap_len == ReadU8(m, p + 1)
         IN  Bind(ReadExact(m, p + 2, bitmap_len.val), LAMBDA bytes :
                 IF window_number.err # "Ok" \/ bitmap_len.err # "Ok" \/ bytes.err # "Ok"
                 THEN [err |-> "Io", val |-> <<>>, pos |-> p]
                 ELSE IF Len(bytes.val) > 32 THEN [err |-> "Overflow", val |-> <<>>, pos |-> p]
                 ELSE parse_type_bitmap(m, bytes.pos, (len_read + 2 + Len(bytes.val)) % 65536,
                                        rdlength,
                                        available_types \o BlockTypes(window_number.val, bytes.val, 0)))

\* an encoder that writes every block in full, all 32 bytes
RECURSIVE encode_type_bitmap_mut_full(_)
encode_type_bitmap_mut_full(ts) ==
    IF ts = {} THEN <<>>
    ELSE LET w == CHOOSE x \in {t \div 256 : t \in ts} :
                      \A y \in {t \div 256 : t \in ts} : x <= y
             offs == {t % 256 : t \in {u \in ts : u \div 256 = w}}
             byte(i) == SumSeq([j \in 1..8 |-> IF (i * 8 + j - 1) \in offs THEN Pow2(8 - j) ELSE 0])
         IN  <<w % 256, 32>> \o [i \in 1..32 |-> byte(i - 1)]
                 \o encode_type_bitmap_mut_full({u \in ts : u \div 256 # w})

\* NSEC::encode_type_bitmap_into: one block per window, lowest window first
RECURSIVE encode_type_bitmap(_)
encode_type_bitmap(ts) ==
    IF ts = {} THEN <<>>
    ELSE LET w == CHOOSE x \in {t \div 256 : t \in ts} :
                      \A y \in {t \div 256 : t \in ts} : x <= y
             offs == {t % 256 : t \in {u \in ts : u \div 256 = w}}
             last == CHOOSE x \in offs : \A y \in offs : y <= x
             byte(i) == SumSeq([j \in 1..8 |-> IF (i * 8 + j - 1) \in offs THEN Pow2(8 - j) ELSE 0])
         IN  <<w % 256, (last \div 8) + 1>> \o [i \in 1..((last \div 8) + 1) |-> byte(i - 1)]
                 \o encode_type_bitmap({u \in ts : u \div 256 # w})

\* a field parser that follows compression pointers in every name field
ParseField_mut_allow(kind, m, p, start, rdlength) ==
    LET nm(r) == [err |-> r.err, val |-> r.labels, pos |-> r.pos]
    IN  CASE kind = "u8" -> ReadU8(m, p)
          [] kind = "u16" -> ReadU16(m, p)
          [] kind = "u32" -> ReadU32(m, p)
          [] kind = "ipv4" -> ReadExact(m, p, 4)
          [] kind = "str" -> parse_string(m, p)
          [] kind \in {"name", "name_nc"} -> nm(Name_parse(m, p, "Allowed"))
          [] kind = "rest" -> ReadExact(m, p, rdlength - (p - start))
          [] kind = "bitmap" -> parse_type_bitmap(m, p, p - start, rdlength, <<>>)

\* one field of the given kind read at position p; start is where the RDATA
\* begins
ParseField(kind, m, p, start, rdlength) ==
    LET nm(r) == [err |-> r.err, val |-> r.labels, pos |-> r.pos]
    IN  CASE kind = "u8" -> ReadU8(m, p)
          [] kind = "u16" -> ReadU16(m, p)
          [] kind = "u32" -> ReadU32(m, p)
          [] kind = "ipv4" -> ReadExact(m, p, 4)
          [] kind = "str" -> parse_string(m, p)
          [] kind = "name" -> nm(Name_parse(m, p, "Allowed"))
          [] kind = "name_nc" -> nm(Name_parse(m, p, "Prohibited"))
          [] kind = "rest" -> IF rdlength < p - start
                              THEN [err |-> "Panic", val |-> <<>>, pos |-> p]
                              ELSE ReadExact(m, p, rdlength - (p - start))
          [] kind = "bitmap" -> parse_type_bitmap(m, p, p - start, rdlength, <<>>)

RECURSIVE ParseFields(_, _, _, _, _, _)
ParseFields(layout, m, p, start, rdlength, acc) ==
    IF layout = <<>> THEN [err |-> "Ok", val |-> acc, pos |-> p]
    ELSE Bind(ParseField(Head(layout)[2], m, p, start, rdlength), LAMBDA r :
             IF r.err # "Ok" THEN [err |-> r.err, val |-> <<>>, pos |-> r.pos]
             ELSE ParseFields(Tail(layout), m, r.pos, start, rdlength, Append(acc, r.val)))

\* Record::parse_rdata of a record of type atype (not OPT) at position p
Record_parse_rdata(atype, m, p, rdlength) ==
    Bind(ParseFields(RdataLayout(atype), m, p, p, rdlength, <<>>), LAMBDA r :
        IF r.err # "Ok" THEN [err |-> r.err, val |-> NoParse, pos |-> r.pos]
        ELSE [err |-> "Ok", val |-> [t |-> RdataVariant(atype), f |-> r.val], pos |-> r.pos])

EncodeField(kind, v) ==
    CASE kind = "u8" -> <<v>>
      [] kind = "u16" -> U16Bytes(v)
      [] kind = "u32" -> U32Bytes(v)
      [] kind = "ipv4" -> v
      [] kind = "str" -> <<Len(v) % 256>> \o v
      [] kind = "name" -> NameWire(v)
      [] kind = "name_nc" -> NameWire(v)
      [] kind = "rest" -> v
      [] kind = "bitmap" -> encode_type_bitmap({v[i] : i \in 1..Len(v)})

\* Rdata::encode
Rdata_encode(x) ==
    LET layout == RdataLayout(x.t)
    IN  Flatten([i \in 1..Len(layout) |-> EncodeField(layout[i][2], x.f[i])])

\* Rdata::canonicalize: the embedded names are lowercased
Rdata_canonicalize(x) ==
    LET layout == RdataLayout(x.t)
    IN  [x EXCEPT !.f = [i \in 1..Len(layout) |->
                            IF layout[i][2] \in {"name", "name_nc"}
                            THEN Name_canonicalize(x.f[i]) ELSE x.f[i]]]

-----------------------------------------------------------------------------
(* Question, Record, Message *)

Question_encode(q) == NameWire(q.qname) \o U16Bytes(q.qtype) \o U16Bytes(Class_encode(q.qclass))

Question_parse(m, p) ==
    Bind(Name_parse(m, p, "Allowed"), LAMBDA qname :
        LET qtype == ReadU16(m, qname.pos)
            raw == ReadU16(m, qname.pos + 2)
            qclass == Class_parse(raw.val)
            fail(e, q) == [err |-> e, val |-> NoParse, pos |-> q]
        IN  IF qname.err # "Ok" THEN fail(qname.err, qname.pos)
            ELSE IF qtype.err # "Ok" \/ raw.err # "Ok" THEN fail("Io", qname.pos)
            ELSE IF qclass.err # "Ok" THEN fail(qclass.err, raw.pos)
            ELSE [err |-> "Ok",
                  val |-> [qname |-> qname.labels, qtype |-> qtype.val, qclass |-> qclass.val],
                  pos |-> raw.pos])

\* NonOptRecord::new; Rdata::rtype of Rdata::Unknown is RecordType::Unknown(0)
NonOptRecord_new(owner, class, ttl, rdata) ==
    [kind |-> "NONOPT", owner |-> owner, rtype |-> rdata.t, class |-> class, ttl |-> ttl,
     encoded_rdata |-> Rdata_encode(rdata), rdata |-> rdata]

NonOptRecord_encode(r) ==
    NameWire(r.owner) \o U16Bytes(r.rtype) \o U16Bytes(Class_encode(r.class)) \o U32Bytes(r.ttl)
        \o U16Bytes(Len(r.encoded_rdata) % 65536) \o r.encoded_rdata

\* OPT::encode_rdata_into of the options, a set of <<code, value>> pairs with
\* at most one element
OPT_encode_rdata(options) ==
    IF options = {} THEN <<>>
    ELSE LET o == CHOOSE x \in options : TRUE
         IN  U16Bytes(o[1]) \o U16Bytes(Len(o[2]) % 65536) \o o[2]

\* OptRecord::new
OptRecord_new(rcode, bufsize, do_flag, options) ==
    [kind |-> "OPT", owner |-> Name_root, payload_size |-> bufsize, rcode |-> rcode,
     edns_version |-> 0, flags |-> IF do_flag THEN <<"DO">> ELSE <<>>,
     encoded_rdata |-> OPT_encode_rdata(options), rdata |-> [t |-> 41, options |-> options]]

OptRecord_encode(r) ==
    LET rcode == IF r.rcode = "None" THEN "NOERROR" ELSE r.rcode
        ext == (RCode_encode(rcode) \div 16) % 256
    IN  NameWire(r.owner) \o U16Bytes(RecordType_code("OPT")) \o U16Bytes(r.payload_size)
            \o <<ext, r.edns_version>>
            \o U16Bytes(IF \E i \in 1..Len(r.flags) : r.flags[i] = "DO" THEN 32768 ELSE 0)
            \o U16Bytes(Len(r.encoded_rdata) % 65536) \o r.encoded_rdata

Record_encode(r) == IF r.kind = "OPT" THEN OptRecord_encode(r) ELSE NonOptRecord_encode(r)

\* OPT::parse_rdata: the options map as a set of <<code, value>> pairs, a later
\* option replacing an earlier one of the same code
RECURSIVE OPT_parse_rdata(_, _, _, _, _)
OPT_parse_rdata(m, p, len, rdlength, options) ==
    IF len >= rdlength
    THEN [err |-> "Ok", val |-> [t |-> 41, options |-> options], pos |-> p]
    ELSE LET option_code == ReadU16(m, p)
             option_len == ReadU16(m, p + 2)
         IN  Bind(ReadExact(m, p + 4, option_len.val), LAMBDA option_value :
                 IF option_code.err # "Ok" \/ option_len.err # "Ok" \/ option_value.err # "Ok"
                 THEN [err |-> "Io", val |-> NoParse, pos |-> p]
                 ELSE OPT_parse_rdata(m, option_value.pos,
                                      (len + Len(option_value.val) + 4) % 65536, rdlength,
                                      {o \in options : o[1] # option_code.val}
                                          \cup {<<option_code.val, option_value.val>>}))

\* OptRecord::parse, after the owner and the type were read
OptRecord_parse(m, p, owner, rcode) ==
    LET payload_size == ReadU16(m, p)
        ext_rcode == ReadU8(m, p + 2)
        full == IF rcode # "None" /\ ext_rcode.val # 0
                THEN RCode_parse(ext_rcode.val * 16 + RCode_encode(rcode))
                ELSE [err |-> "Ok", val |-> rcode]
        edns_version == ReadU8(m, p + 3)
        z == ReadU16(m, p + 4)
        rdlength == ReadU16(m, p + 6)
        encoded_rdata == ReadExact(m, p + 8, rdlength.val)
        fail(e, q) == [err |-> e, val |-> NoParse, pos |-> q]
    IN  IF owner # Name_root THEN fail("InvalidOptName", p)
        ELSE IF payload_size.err # "Ok" \/ ext_rcode.err # "Ok" THEN fail("Io", p)
        ELSE IF full.err # "Ok" THEN fail(full.err, ext_rcode.pos)
        ELSE IF rdlength.err # "Ok" \/ encoded_rdata.err # "Ok" THEN fail("Io", ext_rcode.pos)
        ELSE Bind(OPT_parse_rdata(m, p + 8, 0, rdlength.val, {}), LAMBDA rdata :
                 IF rdata.err # "Ok" THEN fail(rdata.err, rdata.pos)
                 ELSE [err |-> "Ok",
                       val |-> [kind |-> "OPT", owner |-> owner,
                                payload_size |-> payload_size.val,
                                rcode |-> full.val, edns_version |-> edns_version.val,
                                flags |-> IF Bit(z.val, 15) # 0 THEN <<"DO">> ELSE <<>>,
                                encoded_rdata |-> encoded_rdata.val, rdata |-> rdata.val],
                       pos |-> rdata.pos])

\* Record::parse at position p; the cursor is left where parse_rdata left it
Record_parse(m, p, rcode) ==
    Bind(Name_parse(m, p, "Allowed"), LAMBDA owner :
        LET q == owner.pos
            atype == ReadU16(m, q)
            raw == ReadU16(m, q + 2)
            class == Class_parse(raw.val)
            ttl == ReadU32(m, q + 4)
            rdlength == ReadU16(m, q + 8)
            encoded_rdata == ReadExact(m, q + 10, rdlength.val)
            fail(e, at) == [err |-> e, val |-> NoParse, pos |-> at]
        IN  IF owner.err # "Ok" THEN fail(owner.err, q)
            ELSE IF atype.err # "Ok" THEN fail("Io", q)
            ELSE IF atype.val = RecordType_code("OPT")
            THEN OptRecord_parse(m, q + 2, owner.labels, rcode)
            ELSE IF raw.err # "Ok" THEN fail("Io", q + 2)
            ELSE IF class.err # "Ok" THEN fail(class.err, q + 4)
            ELSE IF ttl.err # "Ok" \/ rdlength.err # "Ok" \/ encoded_rdata.err # "Ok"
            THEN fail("Io", q + 4)
            ELSE Bind(Record_parse_rdata(atype.val, m, q + 10, rdlength.val), LAMBDA rdata :
                     IF rdata.err # "Ok" THEN fail(rdata.err, rdata.pos)
                     ELSE [err |-> "Ok",
                           val |-> [kind |-> "NONOPT", owner |-> owner.labels,
                                    rtype |-> atype.val, class |-> class.val, ttl |-> ttl.val,
                                    encoded_rdata |-> encoded_rdata.val, rdata |-> rdata.val],
                           pos |-> rdata.pos]))

\* Message::encode
Message_encode(m) ==
    Header_encode(m.header)
        \o Flatten([i \in 1..Len(m.questions) |-> Question_encode(m.questions[i])])
        \o Flatten([i \in 1..Len(m.answers) |-> Record_encode(m.answers[i])])
        \o Flatten([i \in 1..Len(m.authoritative_answers) |->
                       Record_encode(m.authoritative_answers[i])])
        \o Flatten([i \in 1..Len(m.additional_answers) |->
                       Record_encode(m.additional_answers[i])])

\* Message::parse_questions
RECURSIVE parse_questions(_, _, _, _)
parse_questions(m, p, qdcount, acc) ==
    IF qdcount = 0 THEN [err |-> "Ok", val |-> acc, pos |-> p]
    ELSE Bind(Question_parse(m, p), LAMBDA q :
             IF q.err # "Ok" THEN [err |-> q.err, val |-> <<>>, pos |-> q.pos]
             ELSE parse_questions(m, q.pos, qdcount - 1, Append(acc, q.val)))

\* Message::parse_records
RECURSIVE parse_records(_, _, _, _, _)
parse_records(m, p, ancount, rcode, acc) ==
    IF ancount = 0 THEN [err |-> "Ok", val |-> acc, pos |-> p]
    ELSE Bind(Record_parse(m, p, rcode), LAMBDA r :
             IF r.err # "Ok" THEN [err |-> r.err, val |-> <<>>, pos |-> r.pos]
             ELSE parse_records(m, r.pos, ancount - 1, rcode, Append(acc, r.val)))

\* the rcode of the last OPT record of the section, or the given one
RECURSIVE OptRcode(_, _)
OptRcode(records, rcode) ==
    IF records = <<>> THEN rcode
    ELSE OptRcode(Tail(records), IF Head(records).kind = "OPT" THEN Head(records).rcode ELSE rcode)

\* Message::parse
Message_parse(m) ==
    LET fail(e) == [err |-> e, val |-> NoParse]
        sections(h, questions) ==
            Bind(parse_records(m, questions.pos, h.ancount, h.rcode, <<>>), LAMBDA answers :
            Bind(parse_records(m, answers.pos, h.nscount, h.rcode, <<>>), LAMBDA authority :
            Bind(parse_records(m, authority.pos, h.arcount, h.rcode, <<>>), LAMBDA additional :
                IF answers.err # "Ok" THEN fail(answers.err)
                ELSE IF authority.err # "Ok" THEN fail(authority.err)
                ELSE IF additional.err # "Ok" THEN fail(additional.err)
                ELSE [err |-> "Ok",
                      val |-> [header |-> [h EXCEPT !.rcode = OptRcode(additional.val, h.rcode)],
                               questions |-> questions.val, answers |-> answers.val,
                               authoritative_answers |-> authority.val,
                               additional_answers |-> additional.val]])))
    IN  Bind(Header_parse(m, 0), LAMBDA header :
            IF header.err # "Ok" THEN fail(header.err)
            ELSE IF header.val.flags.tc THEN fail("TruncatedMessage")
            ELSE Bind(parse_questions(m, header.pos, header.val.qdcount, <<>>),
                      LAMBDA questions :
                          IF questions.err # "Ok" THEN fail(questions.err)
                          ELSE sections(header.val, questions)))

-----------------------------------------------------------------------------
(* Inputs *)

\* ASCII codes of the chars the example names use
AsciiLower == <<"a", "b", "c", "d", "e", "f", "g", "h", "i", "j", "k", "l", "m",
                "n", "o", "p", "q", "r", "s", "t", "u", "v", "w", "x", "y", "z">>

AsciiUpper == <<"A", "B", "C", "D", "E", "F", "G", "H", "I", "J", "K", "L", "M",
                "N", "O", "P", "Q", "R", "S", "T", "U", "V", "W", "X", "Y", "Z">>

Ord(ch) ==
    IF \E i \in 1..26 : AsciiLower[i] = ch THEN 96 + (CHOOSE i \in 1..26 : AsciiLower[i] = ch)
    ELSE IF \E i \in 1..26 : AsciiUpper[i] = ch THEN 64 + (CHOOSE i \in 1..26 : AsciiUpper[i] = ch)
    ELSE IF ch = "*" THEN 42
    ELSE IF ch = "-" THEN 45
    ELSE 95

\* a label from its chars
L(chars) == [i \in 1..Len(chars) |-> Ord(chars[i])]

l_example == L(<<"e", "x", "a", "m", "p", "l", "e">>)

\* labels the inputs are built from: a, Z, a-Z, _ and a label of 63 bytes
TestLabels == {<<97>>, <<90>>, <<97, 45, 90>>, Repeat(97, 63)}

SeqsUpTo(S, k) == UNION {[1..j -> S] : j \in 0..k}

\* the valid names (root, plain and wildcard) of at most MaxLabels labels
TestNames == {n \in SeqsUpTo(TestLabels \cup {<<42>>}, MaxLabels) : FromAsciiAccepts(n)}

\* literal labels a peer writes in front of a compression pointer
TestLiterals == {<<>>, <<<<115, 117, 98>>>>, <<<<90>>, <<97>>>>}

\* what precedes the first name in a buffer: nothing, or a 12-byte header
TestPrefixes == {<<>>, Repeat(0, 12)}

-----------------------------------------------------------------------------
(* Wire machine: names written to and parsed from a message buffer *)

WireInit ==
    /\ msg \in TestPrefixes
    /\ cursor = 0
    /\ items = <<>>
    /\ parsed = NoParse

\* n.encode_into(&mut msg)
EncodeName(n) ==
    /\ items = <<>>
    /\ LET enc == Name_encode_into(n)
       IN  /\ msg' = msg \o enc.bytes
           /\ items' = Append(items, [kind |-> "name", start |-> Len(msg), name |-> n,
                                      written |-> enc.written, len |-> Len(enc.bytes)])
    /\ UNCHANGED <<cursor, parsed>>
    /\ Frame("wire")

\* a peer's compressed name: literal labels, then a pointer to the first name
PeerCompressedName(lits) ==
    /\ Len(items) = 1
    /\ LET target == items[1]
           litbytes == Flatten([i \in 1..Len(lits) |-> <<Len(lits[i])>> \o lits[i]])
           bytes == litbytes \o <<192 + (target.start \div 256), target.start % 256>>
       IN  /\ msg' = msg \o bytes
           /\ items' = Append(items, [kind |-> "compressed", start |-> Len(msg), lits |-> lits,
                                      target |-> 1, len |-> Len(bytes)])
    /\ UNCHANGED <<cursor, parsed>>
    /\ Frame("wire")

\* cursor.set_position(start of item i); Name::parse(&mut cursor, compression)
ParseName(i, compression) ==
    /\ i \in 1..Len(items)
    /\ items[i].kind \in {"name", "compressed"}
    /\ LET res == Name_parse(msg, items[i].start, compression)
       IN  /\ parsed' = [kind |-> "name", item |-> i, compression |-> compression, res |-> res]
           /\ cursor' = res.pos
    /\ UNCHANGED <<msg, items>>
    /\ Frame("wire")

\* the bytes a peer sends for one field of the given kind
PeerField(kind, namebytes) ==
    CASE kind = "u8" -> <<3>>
      [] kind = "u16" -> <<0, 10>>
      [] kind = "u32" -> <<0, 0, 14, 16>>
      [] kind = "ipv4" -> <<192, 0, 2, 1>>
      [] kind = "str" -> <<1, 97>>
      [] kind \in {"name", "name_nc"} -> namebytes
      [] kind = "rest" -> <<7, 7, 7>>
      [] kind = "bitmap" -> <<0, 1, 64>>

\* the record types whose RDATA holds a name
NameTypes == {RecordType_code(n) : n \in {"NS", "CNAME", "SOA", "PTR", "MX", "RP", "SRV", "NAPTR",
                                           "DNAME", "RRSIG", "NSEC"}}

\* a peer's record of type t: the owner is literal labels and a pointer to the
\* first name; the names in its RDATA are written the same way if compress,
\* and in full otherwise
PeerRecord(t, lits, compress) ==
    /\ Len(items) = 1
    /\ LET target == items[1]
           litbytes == Flatten([i \in 1..Len(lits) |-> <<Len(lits[i])>> \o lits[i]])
           ptr == litbytes \o <<192 + (target.start \div 256), target.start % 256>>
           layout == RdataLayout(t)
           rdata == Flatten([i \in 1..Len(layout) |->
                        PeerField(layout[i][2],
                                  IF compress THEN ptr ELSE NameWire(lits \o target.name))])
           bytes == ptr \o U16Bytes(t) \o U16Bytes(Class_encode("IN")) \o U32Bytes(U32(300))
                        \o U16Bytes(Len(rdata)) \o rdata
       IN  /\ msg' = msg \o bytes
           /\ items' = Append(items, [kind |-> "record", start |-> Len(msg), rtype |-> t,
                                      lits |-> lits, compress |-> compress, target |-> 1,
                                      len |-> Len(bytes)])
    /\ UNCHANGED <<cursor, parsed>>
    /\ Frame("wire")

\* a peer's question whose QNAME is literal labels and a pointer to the first
\* name
PeerQuestion(lits) ==
    /\ Len(items) = 1
    /\ LET target == items[1]
           litbytes == Flatten([i \in 1..Len(lits) |-> <<Len(lits[i])>> \o lits[i]])
           bytes == litbytes \o <<192 + (target.start \div 256), target.start % 256>>
                        \o U16Bytes(RecordType_code("A")) \o U16Bytes(Class_encode("IN"))
       IN  /\ msg' = msg \o bytes
           /\ items' = Append(items, [kind |-> "question", start |-> Len(msg), lits |-> lits,
                                      target |-> 1, len |-> Len(bytes)])
    /\ UNCHANGED <<cursor, parsed>>
    /\ Frame("wire")

\* cursor.set_position(start of item i); Record::parse(&mut cursor, None)
ParseRecord(i) ==
    /\ i \in 1..Len(items)
    /\ items[i].kind = "record"
    /\ parsed = NoParse
    /\ LET res == Record_parse(msg, items[i].start, "None")
       IN  /\ parsed' = [kind |-> "record", item |-> i, res |-> res]
           /\ cursor' = res.pos
    /\ UNCHANGED <<msg, items>>
    /\ Frame("wire")

\* cursor.set_position(start of item i); Question::parse(&mut cursor)
ParseQuestion(i) ==
    /\ i \in 1..Len(items)
    /\ items[i].kind = "question"
    /\ parsed = NoParse
    /\ LET res == Question_parse(msg, items[i].start)
       IN  /\ parsed' = [kind |-> "question", item |-> i, res |-> res]
           /\ cursor' = res.pos
    /\ UNCHANGED <<msg, items>>
    /\ Frame("wire")

WireNext ==
    \/ \E n \in TestNames : EncodeName(n)
    \/ \E lits \in TestLiterals : PeerCompressedName(lits)
    \/ \E i \in 1..2, c \in {"Allowed", "Prohibited"} : ParseName(i, c)
    \/ \E t \in NameTypes, lits \in TestLiterals, c \in BOOLEAN : PeerRecord(t, lits, c)
    \/ \E lits \in TestLiterals : PeerQuestion(lits)
    \/ ParseRecord(2)
    \/ ParseQuestion(2)

SpecWireInit == WireInit /\ IdleExcept("wire")

SpecWire == SpecWireInit /\ [][WireNext]_vars

-----------------------------------------------------------------------------
(* C2, C4 *)

\* C2: for every valid Name n, Name::parse with either Compression mode on the
\* bytes n.encode_into wrote returns exactly n's labels and leaves the cursor
\* on the byte after the terminating zero octet; encode_into returns the
\* number of bytes it wrote
C2_NameRoundTrip ==
    /\ \A i \in 1..Len(items) :
          items[i].kind = "name" => items[i].written = items[i].len
    /\ (parsed.kind = "name" /\ items[parsed.item].kind = "name") =>
          LET it == items[parsed.item]
          IN  /\ parsed.res.err = "Ok"
              /\ parsed.res.labels = it.name
              /\ cursor = it.start + it.len
              /\ msg[cursor] = 0
              /\ \A q \in (it.start + 1)..(cursor - 1) : msg[q] # 0

\* a wildcard name with a 63-byte label, written after a header, was parsed
\* with compression prohibited
C2_Witness ==
    /\ parsed.kind = "name"
    /\ items[parsed.item].kind = "name"
    /\ items[parsed.item].start = 12
    /\ parsed.compression = "Prohibited"
    /\ Name_is_wildcard(items[parsed.item].name)
    /\ Len(items[parsed.item].name) = 2
    /\ Len(items[parsed.item].name[2]) = 63
    /\ parsed.res.err = "Ok"

\* C4: with Compression::Allowed, literal labels followed by a pointer to an
\* earlier name parse to the literal labels followed by the labels of the
\* pointed-to name, and the cursor is left right after the pointer (advanced
\* by the literal labels plus 2)
C4_PointerFollowed ==
    (parsed.kind = "name" /\ items[parsed.item].kind = "compressed"
        /\ parsed.compression = "Allowed") =>
        LET it == items[parsed.item]
            litlen == SumSeq([k \in 1..Len(it.lits) |-> 1 + Len(it.lits[k])])
        IN  /\ parsed.res.err = "Ok"
            /\ parsed.res.labels = it.lits \o items[it.target].name
            /\ cursor = it.start + litlen + 2
            /\ cursor = it.start + it.len

\* `sub` + pointer to a two-label name at offset 12 was parsed: the cursor
\* advanced by 6
C4_Witness ==
    /\ parsed.kind = "name"
    /\ items[parsed.item].kind = "compressed"
    /\ parsed.compression = "Allowed"
    /\ items[parsed.item].lits = <<<<115, 117, 98>>>>
    /\ items[1].start = 12
    /\ Len(items[1].name) = 2
    /\ Len(parsed.res.labels) = 3
    /\ cursor = items[parsed.item].start + 6

\* the values of the name fields of an Rdata value
RdataNames(x) ==
    LET layout == RdataLayout(x.t)
    IN  {x.f[i] : i \in {k \in 1..Len(layout) : layout[k][2] \in {"name", "name_nc"}}}

\* C5: a compression pointer (at the start of the name or after literal
\* labels) in RRSIG signer_name, NSEC next_domain_name, SRV target or NAPTR
\* replacement makes the parse fail with CompressionProhibited; the same
\* pointer in an owner name, a question name or a name of NS, CNAME, SOA, MX,
\* PTR, RP or DNAME RDATA is followed
C5_CompressionRejected ==
    /\ (parsed.kind = "record") =>
          LET it == items[parsed.item]
              full == it.lits \o items[it.target].name
          IN  IF it.compress /\ it.rtype \in {RecordType_code(n) :
                                                  n \in {"RRSIG", "NSEC", "SRV", "NAPTR"}}
              THEN parsed.res.err = "CompressionProhibited"
              ELSE /\ parsed.res.err = "Ok"
                   /\ parsed.res.val.owner = full
                   /\ RdataNames(parsed.res.val.rdata) = {full}
                   /\ cursor = it.start + it.len
    /\ (parsed.kind = "question") =>
          /\ parsed.res.err = "Ok"
          /\ parsed.res.val.qname = items[parsed.item].lits \o items[items[parsed.item].target].name

\* an RRSIG whose signer_name is `sub` and a pointer was rejected
C5_Witness ==
    /\ parsed.kind = "record"
    /\ items[parsed.item].rtype = RecordType_code("RRSIG")
    /\ items[parsed.item].compress
    /\ items[parsed.item].lits = <<<<115, 117, 98>>>>
    /\ parsed.res.err = "CompressionProhibited"

\* an SOA whose mname and rname are a bare pointer was parsed
C5_WitnessFollowed ==
    /\ parsed.kind = "record"
    /\ items[parsed.item].rtype = RecordType_code("SOA")
    /\ items[parsed.item].compress
    /\ items[parsed.item].lits = <<>>
    /\ Len(items[1].name) = 2
    /\ parsed.res.err = "Ok"

-----------------------------------------------------------------------------
(* Order machine: <Name as Ord>::cmp and Vec<Name>::sort *)

\* the ten names of the doc test of `impl Ord for Name`, in the order the test
\* expects after sorting
names_sorted ==
    << <<l_example>>,
       <<L(<<"a">>), l_example>>,
       <<L(<<"y", "l", "j", "-", "j", "l", "j", "k">>), L(<<"a">>), l_example>>,
       <<L(<<"y", "l", "j", "k", "j", "l", "j", "k">>), L(<<"a">>), l_example>>,
       <<L(<<"Z">>), L(<<"a">>), l_example>>,
       <<L(<<"z", "A", "B", "C">>), L(<<"a">>), L(<<"E", "X", "A", "M", "P", "L", "E">>)>>,
       <<L(<<"z">>), l_example>>,
       <<L(<<"*">>), L(<<"z">>), l_example>>,
       <<L(<<"_">>), L(<<"z">>), l_example>>,
       <<L(<<"a">>), L(<<"z">>), l_example>> >>

\* labels of the names whose comparisons are enumerated: a, A, aZ
OrdLabels == {<<97>>, <<65>>, <<97, 90>>}

OrdNames == SeqsUpTo(OrdLabels, MaxLabels)

\* slice::sort of a short slice is an insertion sort: the next element moves
\* left past every element it is less than
RECURSIVE InsertSorted(_, _)
InsertSorted(v, n) ==
    IF v = <<>> THEN <<n>>
    ELSE IF Name_cmp(n, v[Len(v)]) = "Less"
         THEN Append(InsertSorted(SubSeq(v, 1, Len(v) - 1), n), v[Len(v)])
         ELSE Append(v, n)

OrdInit ==
    /\ names = <<>>
    /\ pending = {names_sorted[i] : i \in 1..Len(names_sorted)}
    /\ cmp_args \in {<<>>} \cup (OrdNames \X OrdNames \X OrdNames)
    /\ cmp_res = <<>>

\* a.cmp(&b), b.cmp(&a), b.cmp(&c), a.cmp(&c), a == b
Compare ==
    /\ cmp_args # <<>>
    /\ cmp_res = <<>>
    /\ LET a == cmp_args[1]
           b == cmp_args[2]
           c == cmp_args[3]
       IN  cmp_res' = [ab |-> Name_cmp(a, b), ba |-> Name_cmp(b, a), bc |-> Name_cmp(b, c),
                       ac |-> Name_cmp(a, c), eq |-> Name_eq(a, b)]
    /\ UNCHANGED <<names, pending, cmp_args>>
    /\ Frame("ord")

\* names.sort(), one element of the (arbitrarily permuted) input at a time
SortStep(n) ==
    /\ cmp_args = <<>>
    /\ n \in pending
    /\ names' = InsertSorted(names, n)
    /\ pending' = pending \ {n}
    /\ UNCHANGED <<cmp_args, cmp_res>>
    /\ Frame("ord")

OrdNext ==
    \/ Compare
    \/ \E n \in pending : SortStep(n)

SpecOrdInit == OrdInit /\ IdleExcept("ord")

SpecOrd == SpecOrdInit /\ [][OrdNext]_vars

\* the RFC 4034 section 6.1 order on two labels: as unsigned byte strings
\* after lowercasing, a missing byte first
LabelBefore(x, y) ==
    LET lx == LabelLower(x)
        ly == LabelLower(y)
    IN  \E k \in 0..Min(Len(lx), Len(ly)) :
           /\ \A q \in 1..k : lx[q] = ly[q]
           /\ \/ (k = Len(lx) /\ k < Len(ly))
              \/ (k < Len(lx) /\ k < Len(ly) /\ lx[k + 1] < ly[k + 1])

\* the RFC 4034 section 6.1 order on two names: the rightmost differing label
\* decides, a name that runs out of labels first sorts first
NameBefore(a, b) ==
    \E k \in 0..Min(Len(a), Len(b)) :
       /\ \A q \in 0..(k - 1) : LabelLower(a[Len(a) - q]) = LabelLower(b[Len(b) - q])
       /\ \/ (k = Len(a) /\ k < Len(b))
          \/ (k < Len(a) /\ k < Len(b) /\ LabelBefore(a[Len(a) - k], b[Len(b) - k]))

\* C3: Name's Ord is the RFC 4034 section 6.1 canonical order (labels from the
\* right, each as a lowercased byte string, a name that runs out of labels
\* first); it is a total order up to case, == holds exactly when cmp returns
\* Equal, and sorting the ten example names in any input order gives the
\* documented sequence
C3_CanonicalOrder ==
    /\ cmp_res # <<>> =>
          LET a == cmp_args[1]
              b == cmp_args[2]
          IN  /\ (cmp_res.ab = "Less") = NameBefore(a, b)
              /\ (cmp_res.ab = "Greater") = NameBefore(b, a)
              /\ (cmp_res.ab = "Equal") = (Name_canonicalize(a) = Name_canonicalize(b))
              /\ (cmp_res.ab = "Less") = (cmp_res.ba = "Greater")
              /\ (cmp_res.ab = "Equal") = (cmp_res.ba = "Equal")
              /\ (cmp_res.ab # "Greater" /\ cmp_res.bc # "Greater") => cmp_res.ac # "Greater"
              /\ (cmp_res.ab = "Less" /\ cmp_res.bc # "Greater") => cmp_res.ac = "Less"
              /\ (cmp_res.ab # "Greater" /\ cmp_res.bc = "Less") => cmp_res.ac = "Less"
              /\ cmp_res.eq = (cmp_res.ab = "Equal")
    /\ (cmp_args = <<>>) =>
          /\ \A i \in 1..(Len(names) - 1) : Name_cmp(names[i], names[i + 1]) = "Less"
          /\ pending = {} => names = names_sorted

\* all ten names were sorted, and the last one pushed was not the greatest
C3_Witness ==
    /\ cmp_args = <<>>
    /\ pending = {}
    /\ Len(names) = 10
    /\ names[5] = <<<<90>>, <<97>>, l_example>>

\* names differing only in case were compared, and so were names of which
\* one is a proper suffix of the other
C3_WitnessCompare ==
    /\ cmp_res # <<>>
    /\ cmp_args[1] = <<<<97>>, <<65>>>>
    /\ cmp_args[2] = <<<<65>>, <<97>>>>
    /\ cmp_args[3] = <<<<97, 90>>, <<97>>>>
    /\ cmp_res.ab = "Equal"
    /\ cmp_res.bc = "Less"

-----------------------------------------------------------------------------
(* Message machine: a Message is built, encoded, and the bytes are parsed *)

\* Header::new_query_header; the caller checked that aa and ra are clear
Header_new_query_header(msg_id, opcode, flags, edns, qdcount) ==
    [msg_id |-> msg_id, qr |-> FALSE, opcode |-> opcode, flags |-> flags, rcode |-> "None",
     qdcount |-> qdcount, ancount |-> 0, nscount |-> 0, arcount |-> IF edns THEN 1 ELSE 0]

Header_new_response_header(msg_id, opcode, flags, rcode, counts) ==
    [msg_id |-> msg_id, qr |-> TRUE, opcode |-> opcode, flags |-> flags, rcode |-> rcode,
     qdcount |-> counts[1], ancount |-> counts[2], nscount |-> counts[3], arcount |-> counts[4]]

\* Message::new_query; edns is NoParse (None) or an EdnsConfig
Message_new_query(msg_id, domain, qtype, opcode, flags, edns) ==
    [header |-> Header_new_query_header(msg_id, opcode, flags, edns # NoParse, 1),
     questions |-> << [qname |-> domain, qtype |-> qtype, qclass |-> "IN"] >>,
     answers |-> <<>>,
     authoritative_answers |-> <<>>,
     additional_answers |->
         IF edns # NoParse
         THEN << OptRecord_new("None", edns.bufsize, edns.do_flag, edns.options) >>
         ELSE <<>>]

Message_new_response(msg_id, opcode, flags, rcode, questions, records) ==
    [header |-> Header_new_response_header(msg_id, opcode, flags, rcode,
                    <<Len(questions) % 65536, Len(records[1]) % 65536,
                      Len(records[2]) % 65536, Len(records[3]) % 65536>>),
     questions |-> questions,
     answers |-> records[1],
     authoritative_answers |-> records[2],
     additional_answers |-> records[3]]

AllFlags == [aa : BOOLEAN, tc : BOOLEAN, rd : BOOLEAN, ra : BOOLEAN, ad : BOOLEAN, cd : BOOLEAN]

n_example == <<l_example, L(<<"c", "o", "m">>)>>

n_www == <<L(<<"w", "w", "w">>)>> \o n_example

n_ns == <<L(<<"n", "s">>)>> \o n_example

TestMsgIds == {0, 48879}

TestOpcodes == {"QUERY", "UPDATE"}

TestRcodes == {"NOERROR", "NXDOMAIN", "BADKEY"}

\* EdnsConfig values; a client cookie becomes option 10
TestEdns ==
    {NoParse,
     [do_flag |-> TRUE, bufsize |-> 4096, options |-> {}],
     [do_flag |-> FALSE, bufsize |-> 1232, options |-> {<<10, <<1, 2, 3, 4, 5, 6, 7, 8>>>>}]}

rdata_A(address) == [t |-> RecordType_code("A"), f |-> <<address>>]

rdata_RRSIG ==
    [t |-> RecordType_code("RRSIG"),
     f |-> <<RecordType_code("A"), 13, 3, U32(3600), U32(1700003600), U32(1700000000), 4660,
             n_example,
             Repeat(171, 64)>>]

\* the three record sections of the responses drawn as inputs
TestSections(rcode) ==
    { << <<>>, <<>>, <<>> >>,
      << << NonOptRecord_new(n_www, "IN", U32(300), rdata_A(<<192, 0, 2, 1>>)),
            NonOptRecord_new(n_www, "IN", U32(300), rdata_RRSIG) >>,
         << NonOptRecord_new(n_example, "IN", U32(3600), [t |-> RecordType_code("NS"), f |-> <<n_ns>>]) >>,
         << NonOptRecord_new(n_ns, "IN", U32(3600), rdata_A(<<192, 0, 2, 2>>)),
            OptRecord_new(rcode, 1232, TRUE, {}) >> >>,
      << << NonOptRecord_new(n_example, "CH", U32(60),
                [t |-> RecordType_code("MX"), f |-> <<10, n_www>>]),
            NonOptRecord_new(n_example, "IN", U32(60),
                [t |-> RecordType_code("SRV"), f |-> <<0, 5, 443, n_www>>]) >>,
         << NonOptRecord_new(n_example, "IN", U32(60),
                [t |-> RecordType_code("SOA"), f |-> <<n_ns, n_www, U32(2024010101), U32(7200),
                                                      U32(3600), U32(1209600), U32(300)>>]) >>,
         <<>> >> }

MsgInit ==
    /\ message = NoParse
    /\ encoded = NoParse
    /\ hdr_parsed = NoParse
    /\ msg_parsed = NoParse

\* Message::new_query(domain, qtype, opcode, flags, edns), which fails with
\* AaOrRaInQuery when aa or ra is set
NewQuery(msg_id, domain, qtype, opcode, flags, edns) ==
    /\ message = NoParse
    /\ ~(flags.aa \/ flags.ra)
    /\ message' = Message_new_query(msg_id, domain, qtype, opcode, flags, edns)
    /\ UNCHANGED <<encoded, hdr_parsed, msg_parsed>>
    /\ Frame("msg")

\* Message::new_response(msg_id, opcode, flags, rcode, questions, records)
NewResponse(msg_id, opcode, flags, rcode, questions, records) ==
    /\ message = NoParse
    /\ message' = Message_new_response(msg_id, opcode, flags, rcode, questions, records)
    /\ UNCHANGED <<encoded, hdr_parsed, msg_parsed>>
    /\ Frame("msg")

\* message.encode()
EncodeMessage ==
    /\ message # NoParse
    /\ encoded = NoParse
    /\ encoded' = [kind |-> "bytes", bytes |-> Message_encode(message)]
    /\ UNCHANGED <<message, hdr_parsed, msg_parsed>>
    /\ Frame("msg")

\* Header::parse(&mut Cursor::new(&encoded))
ParseHeader ==
    /\ encoded # NoParse
    /\ hdr_parsed = NoParse
    /\ hdr_parsed' = Header_parse(encoded.bytes, 0)
    /\ UNCHANGED <<message, encoded, msg_parsed>>
    /\ Frame("msg")

\* Message::parse(&mut Cursor::new(&encoded))
ParseMessage ==
    /\ encoded # NoParse
    /\ msg_parsed = NoParse
    /\ msg_parsed' = Message_parse(encoded.bytes)
    /\ UNCHANGED <<message, encoded, hdr_parsed>>
    /\ Frame("msg")

MsgNext ==
    \/ \E id \in TestMsgIds, d \in {n_example, Name_root}, o \in TestOpcodes, f \in AllFlags,
          e \in TestEdns : NewQuery(id, d, RecordType_code("A"), o, f, e)
    \/ \E id \in TestMsgIds, o \in TestOpcodes, f \in AllFlags, r \in TestRcodes,
          q \in {<<>>, << [qname |-> n_www, qtype |-> RecordType_code("A"), qclass |-> "IN"] >>} :
          \E s \in TestSections(r) : NewResponse(id, o, f, r, q, s)
    \/ EncodeMessage
    \/ ParseHeader
    \/ ParseMessage

SpecMsgInit == MsgInit /\ IdleExcept("msg")

SpecMsg == SpecMsgInit /\ [][MsgNext]_vars

\* C6 (as claimed): for each of the 64 flag combinations the flags read back by
\* from_flags are the flags as_flags wrote, AA being bit 10, TC bit 9, RD bit 8,
\* RA bit 7, AD bit 5 and CD bit 4 of the second header word
C6_FlagsRoundTrip ==
    (encoded # NoParse /\ hdr_parsed # NoParse) =>
        LET f == message.header.flags
            w == encoded.bytes[3] * 256 + encoded.bytes[4]
            b(x) == IF x THEN 1 ELSE 0
        IN  /\ Bit(w, 10) = b(f.aa) /\ Bit(w, 9) = b(f.tc) /\ Bit(w, 8) = b(f.rd)
            /\ Bit(w, 7) = b(f.ra) /\ Bit(w, 5) = b(f.ad) /\ Bit(w, 4) = b(f.cd)
            /\ HeaderFlags_from_flags(HeaderFlags_as_flags(f)) = f
            /\ hdr_parsed.err = "Ok"
            /\ hdr_parsed.val.flags = f

\* C1 (as claimed): Message::parse of Message::encode of a message with
\* consistent counts succeeds and returns an equal message (the labels of the
\* parsed names are those written, so Name equality is equality of labels)
C1_MessageRoundTrip ==
    msg_parsed # NoParse => (msg_parsed.err = "Ok" /\ msg_parsed.val = message)

-----------------------------------------------------------------------------
(* Key machine: DNSKEY::key_tag *)

DNSKEY_encode_flags(k) ==
    (IF k.zone THEN 256 ELSE 0) + (IF k.revoked THEN 128 ELSE 0)
        + (IF k.secure_entry_point THEN 1 ELSE 0)

\* DNSKEY::encode_rdata_into: the bytes written
DNSKEY_encode_rdata(k) == U16Bytes(DNSKEY_encode_flags(k)) \o <<3, k.algorithm>> \o k.key

\* DNSKEY::key_tag: the Vec starts as key.len() + 4 zero bytes and
\* encode_rdata_into appends the RDATA to it
DNSKEY_key_tag(k) ==
    Bind(Repeat(0, Len(k.key) + 4) \o DNSKEY_encode_rdata(k), LAMBDA key_data :
        LET ac == SumSeq([i \in 1..Len(key_data) |->
                            IF (i - 1) % 2 # 0 THEN key_data[i] ELSE key_data[i] * 256])
            folded == ac + ((ac \div 65536) % 65536)
        IN  folded % 65536)

\* public keys: every byte string over three byte values, up to MaxKeyLen long
TestKeyBytes == SeqsUpTo({0, 1, 255}, MaxKeyLen)

\* algorithm numbers: RSASHA256, ECDSAP256SHA256, and an unassigned one
TestAlgorithms == {8, 13, 200}

KeyInit ==
    /\ dnskey \in [zone : BOOLEAN, revoked : BOOLEAN, secure_entry_point : BOOLEAN,
                   algorithm : TestAlgorithms, key : TestKeyBytes]
    /\ tag = NoParse

\* dnskey.key_tag()
KeyTag ==
    /\ tag = NoParse
    /\ tag' = [kind |-> "tag", val |-> DNSKEY_key_tag(dnskey)]
    /\ UNCHANGED dnskey
    /\ Frame("key")

KeyNext == KeyTag

SpecKeyInit == KeyInit /\ IdleExcept("key")

SpecKey == SpecKeyInit /\ [][KeyNext]_vars

\* the key tag of RFC 4034, Appendix B, over the RDATA bytes
RFC4034_key_tag(rdata) ==
    LET ac == SumSeq([i \in 1..Len(rdata) |->
                        IF (i - 1) % 2 = 0 THEN rdata[i] * 256 ELSE rdata[i]])
    IN  (ac + ((ac \div 65536) % 65536)) % 65536

\* C7 (as claimed): for every DNSKEY, key_tag() is the RFC 4034 Appendix B
\* checksum of its RDATA (flags, protocol 3, algorithm, key), for keys of odd
\* and of even length
C7_KeyTagRfc ==
    tag # NoParse => tag.val = RFC4034_key_tag(DNSKEY_encode_rdata(dnskey))

-----------------------------------------------------------------------------
(* Record machine: NonOptRecord::canonicalize *)

\* the loop of NonOptRecord::canonicalize: labels are popped from the front
\* while the label count is above rrsig_labels
RECURSIVE PopToLabels(_, _)
PopToLabels(owner, rrsig_labels) ==
    IF Name_label_count(owner) > rrsig_labels
    THEN PopToLabels(Name_pop_front_label(owner), rrsig_labels)
    ELSE owner

\* NonOptRecord::canonicalize: the result and the record after the call
NonOptRecord_canonicalize(r, rrsig_labels, original_ttl) ==
    IF Name_label_count(r.owner) < rrsig_labels
    THEN [err |-> "InvalidRrsigLabelCount", val |-> r]
    ELSE LET owner == Name_canonicalize(r.owner)
             rdata == Rdata_canonicalize(r.rdata)
             popped == Name_label_count(owner) > rrsig_labels
             rest == PopToLabels(owner, rrsig_labels)
         IN  [err |-> "Ok",
              val |-> [r EXCEPT !.owner = IF popped THEN Name_make_wildcard(rest) ELSE rest,
                                !.rdata = rdata,
                                !.ttl = original_ttl,
                                !.encoded_rdata = Rdata_encode(rdata)]]

n_a == <<L(<<"a">>)>> \o n_example

\* owners: ".", example.com, a.example.com, WWW.Example.com, *.example.com,
\* *.a.example.com
TestOwners ==
    {Name_root, n_example, n_a,
     <<L(<<"W", "W", "W">>), L(<<"E", "x", "a", "m", "p", "l", "e">>), L(<<"c", "o", "m">>)>>,
     <<L(<<"*">>)>> \o n_example,
     <<L(<<"*">>)>> \o n_a}

TestRdata ==
    {rdata_A(<<192, 0, 2, 1>>),
     [t |-> RecordType_code("NS"), f |-> << <<L(<<"N", "S">>)>> \o n_example >>]}

RecInit ==
    /\ rec_in \in [record : {NonOptRecord_new(o, "IN", t, x) :
                                o \in TestOwners, t \in {U32(300), U32(7200)}, x \in TestRdata},
                   rrsig_labels : 0..MaxRrsigLabels,
                   original_ttl : {U32(3600)}]
    /\ rec_out = NoParse

\* record.canonicalize(rrsig_labels, original_ttl)
Canonicalize ==
    /\ rec_out = NoParse
    /\ rec_out' = NonOptRecord_canonicalize(rec_in.record, rec_in.rrsig_labels,
                                            rec_in.original_ttl)
    /\ UNCHANGED rec_in
    /\ Frame("rec")

RecNext == Canonicalize

SpecRecInit == RecInit /\ IdleExcept("rec")

SpecRec == SpecRecInit /\ [][RecNext]_vars

\* the rightmost k labels of n
LastLabels(n, k) == SubSeq(n, Len(n) - k + 1, Len(n))

\* C8 (as claimed): canonicalize undoes the wildcard substitution: an owner
\* with more than rrsig_labels labels becomes `*` followed by its rightmost
\* rrsig_labels labels, so that its label count is rrsig_labels; an owner with
\* exactly rrsig_labels labels keeps all its labels, lowercased; an owner with
\* fewer makes the call fail with InvalidRrsigLabelCount
C8_WildcardUndone ==
    rec_out # NoParse =>
        LET o == rec_in.record.owner
            k == rec_in.rrsig_labels
        IN  IF Name_label_count(o) < k THEN rec_out.err = "InvalidRrsigLabelCount"
            ELSE /\ rec_out.err = "Ok"
                 /\ IF Name_label_count(o) > k
                    THEN /\ rec_out.val.owner = <<<<42>>>> \o Name_canonicalize(LastLabels(o, k))
                         /\ Name_label_count(rec_out.val.owner) = k
                    ELSE rec_out.val.owner = Name_canonicalize(o)

-----------------------------------------------------------------------------
(* Validation machine: RrSet::validate *)

\* RrSet::new
RrSet_new(records) ==
    IF records = <<>> THEN [err |-> "EmptyRrset"]
    ELSE IF \E i \in 1..Len(records) :
                \/ records[i].rtype # records[1].rtype
                \/ ~Name_eq(records[i].owner, records[1].owner)
                \/ records[i].class # records[1].class
    THEN [err |-> "InvalidRrSet"]
    ELSE [err |-> "Ok",
          val |-> [records |-> records, record_type |-> records[1].rtype,
                   class |-> records[1].class]]

\* a comparison that takes a distance of exactly 2^31 as "less"
serial_lt_mut_antipodal(s1, s2) ==
    LET up == U32WrappingSub(s2, s1)
        down == U32WrappingSub(s1, s2)
    IN  \/ (U32Lt(s1, s2) /\ up[1] < 32768)
        \/ (U32Lt(s2, s1) /\ down[1] >= 32768)

\* serial_lt, on u32 values held as <<high half, low half>>
serial_lt(s1, s2) ==
    LET up == U32WrappingSub(s2, s1)
        down == U32WrappingSub(s1, s2)
    IN  \/ (U32Lt(s1, s2) /\ up[1] < 32768)
        \/ (U32Lt(s2, s1) /\ (down[1] > 32768 \/ (down[1] = 32768 /\ down[2] > 0)))

check_rrsig_and_dnskey_mut_tag_only(set, rrsig_rec, dnskey_rec, ignore, now) ==
    IF rrsig_rec.rdata.f[7] # DNSKEY_key_tag(dnskey_rec.rdata)
    THEN "RrsigKeyTagDoesNotMatchDnskey"
    ELSE "Ok"

\* RrSet::check_rrsig_and_dnskey: "Ok" or the error returned
check_rrsig_and_dnskey(set, rrsig_rec, dnskey_rec, ignore, now) ==
    IF rrsig_rec.rtype # RecordType_code("RRSIG") \/ rrsig_rec.rdata.t # RecordType_code("RRSIG")
    THEN "NonRrsigRecordGiven"
    ELSE IF dnskey_rec.rtype # RecordType_code("DNSKEY")
            \/ dnskey_rec.rdata.t # RecordType_code("DNSKEY")
    THEN "NonDnskeyRecordGiven"
    ELSE LET rrsig == rrsig_rec.rdata
             key == dnskey_rec.rdata
             owner == set.records[1].owner
         IN  IF Field(rrsig, "type_covered") # set.record_type THEN "RrsigDoesNotCoverType"
             ELSE IF ~Name_eq(rrsig_rec.owner, owner) THEN "RrsigHasDifferentOwner"
             ELSE IF rrsig_rec.class # set.class THEN "RrsigHasDifferentClass"
             ELSE IF serial_lt(Field(rrsig, "signature_expiration"),
                               Field(rrsig, "signature_inception"))
             THEN "RrsigExpirationBeforeInception"
             ELSE IF ~ignore /\ serial_lt(now, Field(rrsig, "signature_inception"))
             THEN "RrsigNotValidYet"
             ELSE IF ~ignore /\ serial_lt(Field(rrsig, "signature_expiration"), now)
             THEN "RrsigExpired"
             ELSE IF ~Name_zone_of(Field(rrsig, "signer_name"), owner)
             THEN "RrsigSignerNotInParentZone"
             ELSE IF ~Name_eq(Field(rrsig, "signer_name"), dnskey_rec.owner)
             THEN "RrsigSignerDoesNotMatchDnskey"
             ELSE IF Field(rrsig, "key_tag") # DNSKEY_key_tag(key)
             THEN "RrsigKeyTagDoesNotMatchDnskey"
             ELSE IF Field(rrsig, "algorithm") # key.algorithm
             THEN "RrsigAlgorithmDoesNotMatchDnskey"
             ELSE IF ~key.zone THEN "DnskeyNoZoneFlag"
             ELSE IF key.revoked THEN "DnskeyRevoked"
             ELSE "Ok"

\* the records after `iter_mut().map(canonicalize).collect()`: collect stops at
\* the first error, and the records before it stay canonicalized
RECURSIVE CanonicalizeAll(_, _, _)
CanonicalizeAll(records, labels, original_ttl) ==
    IF records = <<>> THEN [err |-> "Ok", val |-> <<>>]
    ELSE Bind(NonOptRecord_canonicalize(Head(records), labels, original_ttl), LAMBDA h :
            IF h.err # "Ok" THEN [err |-> h.err, val |-> records]
            ELSE Bind(CanonicalizeAll(Tail(records), labels, original_ttl), LAMBDA t :
                    [err |-> t.err, val |-> <<h.val>> \o t.val]))

RECURSIVE InsertByRdata(_, _)
InsertByRdata(sorted, r) ==
    IF sorted = <<>> THEN <<r>>
    ELSE IF BytesCmp(r.encoded_rdata, Head(sorted).encoded_rdata) = "Less" THEN <<r>> \o sorted
    ELSE <<Head(sorted)>> \o InsertByRdata(Tail(sorted), r)

permutation_sort_mut_unsorted(records) == records

\* permutation::sort over the encoded RDATA, applied to the records: a stable
\* ascending sort
RECURSIVE permutation_sort(_)
permutation_sort(records) ==
    IF records = <<>> THEN <<>>
    ELSE InsertByRdata(permutation_sort(SubSeq(records, 1, Len(records) - 1)),
                       records[Len(records)])

\* Vec::dedup_by_key on the SHA-256 digest of the encoded RDATA: of a run of
\* consecutive records with one digest the first is kept (equal digests are
\* taken to mean equal bytes)
RECURSIVE dedup_by_key(_)
dedup_by_key(records) ==
    IF Len(records) <= 1 THEN records
    ELSE IF records[1].encoded_rdata = records[2].encoded_rdata
    THEN dedup_by_key(<<records[1]>> \o SubSeq(records, 3, Len(records)))
    ELSE <<records[1]>> \o dedup_by_key(Tail(records))

\* RRSIG::encode_into_without_signature
RRSIG_encode_without_signature(rrsig) ==
    U16Bytes(Field(rrsig, "type_covered")) \o <<Field(rrsig, "algorithm"), Field(rrsig, "labels")>>
        \o U32Bytes(Field(rrsig, "original_ttl"))
        \o U32Bytes(Field(rrsig, "signature_expiration"))
        \o U32Bytes(Field(rrsig, "signature_inception"))
        \o U16Bytes(Field(rrsig, "key_tag")) \o NameWire(Field(rrsig, "signer_name"))

\* the keys VerifyingKey::from_sec1_bytes accepts (points of P-256)
P256Points ==
    {Repeat(17, 64), Repeat(34, 64), <<18, 17, 16, 17>> \o Repeat(17, 60)}

\* Signature::from_scalars accepts r and s: neither is zero or above the order
ScalarsOk(signature) ==
    \A half \in {SubSeq(signature, 1, 32), SubSeq(signature, 33, 64)} :
        half # Repeat(0, 32) /\ half # Repeat(255, 32)

\* DNSKEY::validate: "Ok" or the error returned; ECDSA verification succeeds
\* for the triples in sigs
DNSKEY_validate(key, data, signature, sigs) ==
    IF key.algorithm = 13
    THEN IF Len(signature) # 64 THEN "ParseSignature"
         ELSE IF key.key \notin P256Points THEN "ParseKey"
         ELSE IF ~ScalarsOk(signature) THEN "ParseSignature"
         ELSE IF <<key.key, data, signature>> \in sigs THEN "Ok"
         ELSE "InvalidSignature"
    ELSE "UnsupportedAlgorithm"

Validate_new_ttl_mut_no_expiry(rrset_received_ttl, rrsig, rrsig_record_ttl, now) ==
    U32Min(U32Min(rrset_received_ttl, rrsig.f[4]), rrsig_record_ttl)

\* the TTL RrSet::validate sets after a successful verification
Validate_new_ttl(rrset_received_ttl, rrsig, rrsig_record_ttl, now) ==
    LET sig_valid_duration == U32WrappingSub(Field(rrsig, "signature_expiration"), now)
        new_ttl == U32Min(rrset_received_ttl, Field(rrsig, "original_ttl"))
    IN  U32Min(U32Min(new_ttl, sig_valid_duration), rrsig_record_ttl)

\* the TTL written to rrsig_record whatever dnskey.validate returned
Validate_rrsig_ttl_mut_before_verify(res, ttl, new_ttl) == new_ttl

\* the TTL of rrsig_record when validate returns: `dnskey.validate(..)?`
\* leaves before the assignment `rrsig_record.ttl = new_ttl`
Validate_rrsig_ttl(res, ttl, new_ttl) == IF res = "Ok" THEN new_ttl ELSE ttl

RECURSIVE MinTtl(_)
MinTtl(records) ==
    IF Len(records) = 1 THEN records[1].ttl
    ELSE U32Min(records[1].ttl, MinTtl(Tail(records)))

\* the zone key of example.com, another key, and a key that is not a point
key_zone == [t |-> 48, zone |-> TRUE, revoked |-> FALSE, secure_entry_point |-> FALSE,
             algorithm |-> 13, key |-> Repeat(17, 64)]

TestDnskeys ==
    {key_zone,
     [key_zone EXCEPT !.key = Repeat(34, 64)],
     [key_zone EXCEPT !.key = Repeat(0, 64)]}

DnskeyRecord(owner, key) ==
    [kind |-> "NONOPT", owner |-> owner, rtype |-> 48, class |-> "IN", ttl |-> U32(3600),
     encoded_rdata |-> DNSKEY_encode_rdata(key), rdata |-> key]

rdata_NS(name) == [t |-> RecordType_code("NS"), f |-> <<name>>]

n_WWW == <<L(<<"W", "W", "W">>)>> \o n_example

\* RRsets as the zone holds them (owner, and the RDATA in canonical form and
\* order) and as a response carries them (owner, ttl and RDATA of each record)
TestRrsets ==
    {[owner |-> n_www,
      zone |-> <<rdata_A(<<192, 0, 2, 1>>), rdata_A(<<192, 0, 2, 2>>)>>,
      records |-> << <<n_WWW, U32(600), rdata_A(<<192, 0, 2, 2>>)>>,
                     <<n_www, U32(300), rdata_A(<<192, 0, 2, 1>>)>> >>],
     [owner |-> n_www,
      zone |-> <<rdata_A(<<192, 0, 2, 1>>), rdata_A(<<192, 0, 2, 2>>)>>,
      records |-> << <<n_www, U32(300), rdata_A(<<192, 0, 2, 1>>)>>,
                     <<n_www, U32(600), rdata_A(<<192, 0, 2, 2>>)>>,
                     <<n_www, U32(300), rdata_A(<<192, 0, 2, 1>>)>> >>],
     [owner |-> n_www,
      zone |-> <<rdata_A(<<192, 0, 2, 1>>)>>,
      records |-> << <<n_www, U32(300), rdata_A(<<192, 0, 2, 1>>)>> >>],
     [owner |-> n_www,
      zone |-> <<rdata_A(<<192, 0, 2, 1>>), rdata_A(<<192, 0, 2, 2>>)>>,
      records |-> << <<n_www, U32(300), rdata_A(<<192, 0, 2, 1>>)>>,
                     <<n_www, U32(300), rdata_A(<<192, 0, 2, 3>>)>> >>],
     [owner |-> n_example,
      zone |-> <<rdata_NS(n_a), rdata_NS(n_ns)>>,
      records |-> << <<n_example, U32(600), rdata_NS(<<L(<<"N", "S">>)>> \o n_example)>>,
                     <<n_example, U32(300), rdata_NS(n_ns)>>,
                     <<n_example, U32(300), rdata_NS(<<L(<<"A">>)>> \o n_example)>> >>],
     [owner |-> <<L(<<"*">>)>> \o n_example,
      zone |-> <<rdata_A(<<192, 0, 2, 1>>)>>,
      records |-> << <<n_a, U32(300), rdata_A(<<192, 0, 2, 1>>)>> >>]}

\* signature inception, signature expiration and the time of the call
TestTimes ==
    {<<U32(1700000000), U32(1700003600), U32(1700003150)>>,
     <<U32(1700000000), U32(1700003600), U32(1700003550)>>,
     <<U32(1700000000), U32(1700003600), U32(1700003600)>>,
     <<U32(1700000000), U32(1700003600), U32(1700003610)>>,
     <<U32(1700000000), U32(1700003600), U32(1699999990)>>,
     << <<65535, 64536>>, <<0, 500>>, <<0, 50>> >>}

sig_genuine == Repeat(171, 64)

\* the zone's signature, a well-formed signature nobody made, and a short one
TestSignatures == {sig_genuine, Repeat(1, 64), <<1, 2, 3>>}

\* the RRSIG RDATA the zone publishes for the RRset rs
ZoneRrsig(rs, labels, original_ttl, times, signature) ==
    [t |-> RecordType_code("RRSIG"),
     f |-> <<rs.zone[1].t, 13, labels, original_ttl, times[2], times[1],
             DNSKEY_key_tag(key_zone), n_example, signature>>]

\* what the zone signed (RFC 4034, Section 3.1.8.1): the RRSIG RDATA without
\* the signature, then each RR of the RRset with the zone's owner name and the
\* original TTL
ZoneSignedData(rs, rrsig) ==
    RRSIG_encode_without_signature(rrsig)
        \o Flatten([i \in 1..Len(rs.zone) |->
                NonOptRecord_encode(NonOptRecord_new(rs.owner, "IN", rrsig.f[4], rs.zone[i]))])

\* ways in which the RRSIG or the DNSKEY record fails to match
TestDefects ==
    {"none", "type", "owner", "class", "inverted", "signer_zone", "signer_case", "signer_key",
     "algorithm", "nozone", "revoked", "unsupported", "offcurve"}

DefectKey(defect, key) ==
    CASE defect \in {"algorithm", "unsupported"} -> [key EXCEPT !.algorithm = 8]
      [] defect = "offcurve" -> [key EXCEPT !.key = Repeat(0, 64)]
      [] defect = "nozone" -> [key EXCEPT !.zone = FALSE]
      [] defect = "revoked" -> [key EXCEPT !.revoked = TRUE]
      [] OTHER -> key

\* the RRSIG RDATA with the defect; a changed key keeps its key tag in the RRSIG
DefectRrsig(defect, rrsig) ==
    CASE defect = "type" -> [rrsig EXCEPT !.f[1] = 16]
      [] defect = "inverted" -> [rrsig EXCEPT !.f[5] = rrsig.f[6], !.f[6] = rrsig.f[5]]
      [] defect = "signer_zone" -> [rrsig EXCEPT !.f[8] = n_ns]
      [] defect = "signer_case" ->
            [rrsig EXCEPT !.f[8] = <<L(<<"E", "x", "a", "m", "p", "l", "e">>), L(<<"c", "o", "m">>)>>]
      [] defect \in {"algorithm", "nozone", "revoked", "offcurve"} ->
            [rrsig EXCEPT !.f[7] = DNSKEY_key_tag(DefectKey(defect, key_zone))]
      [] defect = "unsupported" ->
            [rrsig EXCEPT !.f[2] = 8, !.f[7] = DNSKEY_key_tag(DefectKey(defect, key_zone))]
      [] OTHER -> rrsig

DefectRecord(defect, rrsig_rec) ==
    CASE defect = "owner" -> [rrsig_rec EXCEPT !.owner = n_ns]
      [] defect = "class" -> [rrsig_rec EXCEPT !.class = "CH"]
      [] OTHER -> rrsig_rec

ValInit ==
    \E rs \in TestRrsets, more \in {0, 1}, original_ttl \in {U32(1000), U32(200)},
       rrsig_ttl \in {U32(500), U32(100)}, times \in TestTimes, key \in TestDnskeys,
       signature \in TestSignatures, defect \in TestDefects :
        LET set == RrSet_new([i \in 1..Len(rs.records) |->
                        NonOptRecord_new(rs.records[i][1], "IN", rs.records[i][2],
                                         rs.records[i][3])])
            zone_labels == Name_label_count(rs.owner)
            rrsig_rec == DefectRecord(defect,
                            NonOptRecord_new(rs.records[1][1], "IN", rrsig_ttl,
                                DefectRrsig(defect, ZoneRrsig(rs, zone_labels + more,
                                                              original_ttl, times, signature))))
        IN  /\ set.err = "Ok"
            /\ defect # "none" =>
                    /\ more = 0 /\ original_ttl = U32(1000) /\ rrsig_ttl = U32(500)
                    /\ signature = sig_genuine /\ key = key_zone
            /\ rrset = set.val
            /\ rrsig_record = rrsig_rec
            /\ dnskey_record =
                    DnskeyRecord(IF defect = "signer_key" THEN n_ns ELSE n_example,
                                 DefectKey(defect, key))
            /\ ignore_time \in BOOLEAN
            /\ clock = times[3]
            /\ signed = {<<key_zone.key,
                           ZoneSignedData(rs, ZoneRrsig(rs, zone_labels, original_ttl, times,
                                                        sig_genuine)),
                           sig_genuine>>}
            /\ received = [records |-> set.val.records, rrsig_ttl |-> rrsig_ttl,
                           rrsig_record |-> rrsig_rec, now |-> times[3]]
            /\ call = [pc |-> "start", rrset_received_ttl |-> <<0, 0>>,
                       data_to_be_signed |-> <<>>, res |-> "none"]

\* RrSet::validate up to the signature base: the checks, the canonicalization,
\* the sort, the removal of duplicates and the encoding
ValidatePrepare ==
    /\ call.pc = "start"
    /\ LET chk == check_rrsig_and_dnskey(rrset, rrsig_record, dnskey_record, ignore_time, clock)
           rrsig == Rdata_canonicalize(rrsig_record.rdata)
           canon == CanonicalizeAll(rrset.records, Field(rrsig, "labels"),
                                    Field(rrsig, "original_ttl"))
           records == dedup_by_key(permutation_sort(canon.val))
       IN  IF chk # "Ok"
           THEN /\ call' = [call EXCEPT !.pc = "done", !.res = chk]
                /\ UNCHANGED <<rrset, rrsig_record>>
           ELSE IF canon.err # "Ok"
           THEN /\ call' = [call EXCEPT !.pc = "done", !.res = canon.err,
                                        !.rrset_received_ttl = MinTtl(rrset.records)]
                /\ rrsig_record' = [rrsig_record EXCEPT !.rdata = rrsig]
                /\ rrset' = [rrset EXCEPT !.records = canon.val]
           ELSE /\ call' = [call EXCEPT !.pc = "verify",
                                        !.rrset_received_ttl = MinTtl(rrset.records),
                                        !.data_to_be_signed =
                                            RRSIG_encode_without_signature(rrsig)
                                                \o Flatten([i \in 1..Len(records) |->
                                                        NonOptRecord_encode(records[i])])]
                /\ rrsig_record' = [rrsig_record EXCEPT !.rdata = rrsig]
                /\ rrset' = [rrset EXCEPT !.records = records]
    /\ UNCHANGED <<dnskey_record, ignore_time, clock, signed, received>>
    /\ Frame("val")

\* RrSet::validate from the signature verification on; the clock is read
\* again, at or after the time of the checks
ValidateVerify ==
    /\ call.pc = "verify"
    /\ LET res == DNSKEY_validate(dnskey_record.rdata, call.data_to_be_signed,
                                  Field(rrsig_record.rdata, "signature"), signed)
       IN  IF res # "Ok"
           THEN /\ call' = [call EXCEPT !.pc = "done", !.res = res]
                /\ rrsig_record' = [rrsig_record EXCEPT !.ttl =
                        Validate_rrsig_ttl(res, @,
                            Validate_new_ttl(call.rrset_received_ttl, rrsig_record.rdata,
                                             rrsig_record.ttl, clock))]
                /\ UNCHANGED <<rrset, clock>>
           ELSE /\ clock' \in {clock, U32Succ(clock)}
                /\ LET new_ttl == Validate_new_ttl(call.rrset_received_ttl, rrsig_record.rdata,
                                                   rrsig_record.ttl, clock')
                   IN  /\ rrsig_record' = [rrsig_record EXCEPT !.ttl =
                                                Validate_rrsig_ttl(res, @, new_ttl)]
                       /\ rrset' = [rrset EXCEPT !.records =
                                        [i \in 1..Len(rrset.records) |->
                                            [rrset.records[i] EXCEPT !.ttl = new_ttl]]]
                /\ call' = [call EXCEPT !.pc = "done", !.res = "Ok"]
    /\ UNCHANGED <<dnskey_record, ignore_time, signed, received>>
    /\ Frame("val")

ValNext == ValidatePrepare \/ ValidateVerify

SpecValInit == ValInit /\ IdleExcept("val")

SpecVal == SpecValInit /\ [][ValNext]_vars

\* what DNSKEY::validate can return
VerifyResults == {"Ok", "ParseSignature", "ParseKey", "InvalidSignature", "UnsupportedAlgorithm"}

\* validate is at, or has returned from, the signature verification
ReachedVerification ==
    call # NoParse /\ (call.pc = "verify" \/ (call.pc = "done" /\ call.res \in VerifyResults))

CanonicalRdata(r) == Rdata_encode(Rdata_canonicalize(r.rdata))

\* C9: whenever validate reaches the signature verification, the records of
\* the set are in strictly ascending lexicographic order of their canonical
\* encoded RDATA (so pairwise distinct), exactly one record is kept for each
\* distinct canonical RDATA of the input set, and the signature base holds the
\* records in that order
C9_SortedDistinct ==
    ReachedVerification =>
        LET recs == rrset.records
            rrsig == rrsig_record.rdata
        IN  /\ \A i \in 1..Len(recs) : recs[i].encoded_rdata = CanonicalRdata(recs[i])
            /\ \A i, j \in 1..Len(recs) :
                    i < j => BytesCmp(CanonicalRdata(recs[i]), CanonicalRdata(recs[j])) = "Less"
            /\ {CanonicalRdata(recs[i]) : i \in 1..Len(recs)}
                    = {CanonicalRdata(received.records[i]) : i \in 1..Len(received.records)}
            /\ call.data_to_be_signed =
                    RRSIG_encode_without_signature(rrsig)
                        \o Flatten([i \in 1..Len(recs) |->
                                NonOptRecord_encode([recs[i] EXCEPT !.ttl = rrsig.f[4]])])

\* three records were received, out of order and with a duplicate, and two
\* are left at the verification
C9_Witness ==
    /\ call # NoParse /\ call.pc = "verify"
    /\ Len(received.records) = 3
    /\ Len(rrset.records) = 2
    /\ \E i \in 1..2 : BytesCmp(received.records[i].encoded_rdata,
                                received.records[i + 1].encoded_rdata) = "Greater"

\* the values the new TTL is the minimum of
TtlCandidates ==
    {received.records[i].ttl : i \in 1..Len(received.records)}
        \cup {rrsig_record.rdata.f[4], U32WrappingSub(rrsig_record.rdata.f[5], clock),
              received.rrsig_ttl}

\* C10: when validate returns Ok, the ttl of rrsig_record and of every record
\* left in the set is the minimum of the received ttls of the set's records,
\* the RRSIG's original_ttl, (signature_expiration - now) mod 2^32 and the
\* ttl of rrsig_record as received
C10_TtlClamp ==
    (call # NoParse /\ call.pc = "done" /\ call.res = "Ok") =>
        \E m \in TtlCandidates :
            /\ \A c \in TtlCandidates : ~U32Lt(c, m)
            /\ rrsig_record.ttl = m
            /\ \A i \in 1..Len(rrset.records) : rrset.records[i].ttl = m

\* received ttls 600 and 300, original_ttl 1000, RRSIG ttl 500 and 450 seconds
\* to the expiration give 300 everywhere
C10_Witness ==
    /\ call # NoParse /\ call.pc = "done" /\ call.res = "Ok"
    /\ {received.records[i].ttl : i \in 1..Len(received.records)} = {U32(300), U32(600)}
    /\ rrsig_record.rdata.f[4] = U32(1000)
    /\ received.rrsig_ttl = U32(500)
    /\ U32WrappingSub(rrsig_record.rdata.f[5], clock) = U32(450)
    /\ rrsig_record.ttl = U32(300)
    /\ \A i \in 1..Len(rrset.records) : rrset.records[i].ttl = U32(300)

\* the signature's remaining lifetime is the minimum: 50 seconds
C10_WitnessExpiry ==
    /\ call # NoParse /\ call.pc = "done" /\ call.res = "Ok"
    /\ rrsig_record.ttl = U32(50)
    /\ received.rrsig_ttl = U32(100)

-----------------------------------------------------------------------------
(* Driver machine: validate_result of the command-line client *)

\* RrSet::validate as one call: the result, and the set and the RRSIG record
\* after it; now is the clock at the checks, later the clock at the TTL update
RrSet_validate(set, rrsig_rec, dnskey_rec, ignore, now, later, sigs) ==
    Bind(check_rrsig_and_dnskey(set, rrsig_rec, dnskey_rec, ignore, now), LAMBDA chk :
        IF chk # "Ok" THEN [res |-> chk, set |-> set, rrsig_record |-> rrsig_rec]
        ELSE
    Bind(Rdata_canonicalize(rrsig_rec.rdata), LAMBDA rrsig :
    Bind(CanonicalizeAll(set.records, Field(rrsig, "labels"), Field(rrsig, "original_ttl")),
         LAMBDA canon :
        IF canon.err # "Ok"
        THEN [res |-> canon.err, set |-> [set EXCEPT !.records = canon.val],
              rrsig_record |-> [rrsig_rec EXCEPT !.rdata = rrsig]]
        ELSE
    Bind(dedup_by_key(permutation_sort(canon.val)), LAMBDA records :
    Bind(DNSKEY_validate(dnskey_rec.rdata,
                         RRSIG_encode_without_signature(rrsig)
                            \o Flatten([i \in 1..Len(records) |-> NonOptRecord_encode(records[i])]),
                         Field(rrsig, "signature"), sigs), LAMBDA res :
        IF res # "Ok"
        THEN [res |-> res, set |-> [set EXCEPT !.records = records],
              rrsig_record |-> [rrsig_rec EXCEPT !.rdata = rrsig]]
        ELSE
    Bind(Validate_new_ttl(MinTtl(set.records), rrsig, rrsig_rec.ttl, later), LAMBDA new_ttl :
        [res |-> "Ok",
         set |-> [set EXCEPT !.records =
                    [i \in 1..Len(records) |-> [records[i] EXCEPT !.ttl = new_ttl]]],
         rrsig_record |-> [rrsig_rec EXCEPT !.rdata = rrsig, !.ttl = new_ttl]]))))))

\* Vec::swap_remove
swap_remove(v, i) ==
    IF i = Len(v) THEN SubSeq(v, 1, Len(v) - 1)
    ELSE [SubSeq(v, 1, Len(v) - 1) EXCEPT ![i] = v[Len(v)]]

\* the loop of validate_result that moves the RRSIG records and the records
\* of the queried type out of the answer section
RECURSIVE PartitionAnswers(_, _, _, _, _)
PartitionAnswers(answers, idx, qtype, rrsig_records, rrset_records) ==
    IF idx > Len(answers)
    THEN [rrsig_records |-> rrsig_records, rrset_records |-> rrset_records]
    ELSE IF answers[idx].kind = "NONOPT" /\ answers[idx].rtype = RecordType_code("RRSIG")
    THEN PartitionAnswers(swap_remove(answers, idx), idx, qtype,
                          Append(rrsig_records, answers[idx]), rrset_records)
    ELSE IF answers[idx].kind = "NONOPT" /\ answers[idx].rtype = qtype
    THEN PartitionAnswers(swap_remove(answers, idx), idx, qtype,
                          rrsig_records, Append(rrset_records, answers[idx]))
    ELSE PartitionAnswers(answers, idx + 1, qtype, rrsig_records, rrset_records)

\* Iterator::find of the RRSIG record that covers qtype: its index, or 0
FindRrsig(rrsig_records, qtype) ==
    IF \E i \in 1..Len(rrsig_records) : Field(rrsig_records[i].rdata, "type_covered") = qtype
    THEN CHOOSE i \in 1..Len(rrsig_records) :
            /\ Field(rrsig_records[i].rdata, "type_covered") = qtype
            /\ \A j \in 1..(i - 1) : Field(rrsig_records[j].rdata, "type_covered") # qtype
    ELSE 0

\* Iterator::filter over the DNSKEY records with the given key tag
RECURSIVE FilterKeyTag(_, _)
FilterKeyTag(dnskeys, rrsig_keytag) ==
    IF dnskeys = <<>> THEN <<>>
    ELSE (IF /\ Head(dnskeys).rtype = RecordType_code("DNSKEY")
             /\ DNSKEY_key_tag(Head(dnskeys).rdata) = rrsig_keytag
          THEN <<Head(dnskeys)>> ELSE <<>>) \o FilterKeyTag(Tail(dnskeys), rrsig_keytag)

\* the DNSKEY records validate_result tries: those with the RRSIG's key tag
DnskeyCandidates(dnskeys, rrsig_rec) ==
    FilterKeyTag(dnskeys, Field(rrsig_rec.rdata, "key_tag"))

\* a second key of the zone with the key tag of key_zone
key_collide == [key_zone EXCEPT !.key = <<18, 17, 16, 17>> \o Repeat(17, 60)]

\* the DNSKEY records of the zone, in every order and selection
DrvDnskeys ==
    {ks \in SeqsUpTo({key_zone, key_collide, [key_zone EXCEPT !.key = Repeat(34, 64)]}, 3) :
        \A i, j \in 1..Len(ks) : i # j => ks[i] # ks[j]}

\* answers of one or two records
DrvRrsets == {rs \in TestRrsets : Len(rs.records) <= 2}

DrvTimes == <<U32(1700000000), U32(1700003600), U32(1700003150)>>

DrvInit ==
    \E rs \in DrvRrsets, ks \in DrvDnskeys, signature \in {sig_genuine, Repeat(1, 64)},
       rrsig_first \in BOOLEAN, missing \in {"nothing", "rrsig", "records"} :
        LET records == [i \in 1..Len(rs.records) |->
                            NonOptRecord_new(rs.records[i][1], "IN", rs.records[i][2],
                                             rs.records[i][3])]
            labels == Name_label_count(rs.owner)
            rrsig == NonOptRecord_new(rs.records[1][1], "IN", U32(500),
                        ZoneRrsig(rs, labels, U32(1000), DrvTimes, signature))
        IN  /\ missing # "nothing" => (rrsig_first /\ signature = sig_genuine)
            /\ drv = [pc |-> "start",
                      answers |-> IF missing = "rrsig" THEN records
                                  ELSE IF missing = "records" THEN <<rrsig>>
                                  ELSE IF rrsig_first THEN <<rrsig>> \o records
                                  ELSE records \o <<rrsig>>,
                      dnskeys |-> [i \in 1..Len(ks) |-> DnskeyRecord(n_example, ks[i])],
                      qtype |-> records[1].rtype,
                      candidates |-> <<>>, idx |-> 0, err |-> "None", outcome |-> "none"]
            /\ received = [records |-> records, rrsig_ttl |-> U32(500),
                           rrsig_record |-> rrsig, now |-> DrvTimes[3]]
            /\ signed = {<<key_zone.key,
                           ZoneSignedData(rs, ZoneRrsig(rs, labels, U32(1000), DrvTimes,
                                                        sig_genuine)),
                           sig_genuine>>}
            /\ clock = DrvTimes[3]
            /\ rrset = NoParse /\ rrsig_record = NoParse
            /\ dnskey_record = NoParse /\ ignore_time = FALSE /\ call = NoParse

\* validate_result up to the loop over the candidates
DriverStart ==
    /\ drv.pc = "start"
    /\ LET parts == PartitionAnswers(drv.answers, 1, drv.qtype, <<>>, <<>>)
           set == RrSet_new(parts.rrset_records)
           found == FindRrsig(parts.rrsig_records, drv.qtype)
       IN  IF drv.dnskeys = <<>>
           THEN /\ drv' = [drv EXCEPT !.pc = "done", !.outcome = "no DNSKEY record found"]
                /\ UNCHANGED <<rrset, rrsig_record>>
           ELSE IF set.err # "Ok"
           THEN /\ drv' = [drv EXCEPT !.pc = "done", !.outcome = set.err]
                /\ UNCHANGED <<rrset, rrsig_record>>
           ELSE IF found = 0
           THEN /\ drv' = [drv EXCEPT !.pc = "done", !.outcome = "no RRSIG record found"]
                /\ rrset' = set.val
                /\ UNCHANGED rrsig_record
           ELSE /\ drv' = [drv EXCEPT !.pc = "loop", !.idx = 1,
                                      !.candidates =
                                          DnskeyCandidates(drv.dnskeys,
                                                           parts.rrsig_records[found])]
                /\ rrset' = set.val
                /\ rrsig_record' = parts.rrsig_records[found]
    /\ UNCHANGED <<dnskey_record, ignore_time, clock, signed, received, call>>
    /\ Frame("drv")

\* one turn of the loop: rrset.validate(&mut rrsig, dnskey, false)
DriverTry ==
    /\ drv.pc = "loop"
    /\ drv.idx <= Len(drv.candidates)
    /\ \E later \in {clock, U32Succ(clock)} :
        LET v == RrSet_validate(rrset, rrsig_record, drv.candidates[drv.idx], FALSE, clock,
                                later, signed)
        IN  /\ rrset' = v.set
            /\ rrsig_record' = v.rrsig_record
            /\ clock' = later
            /\ drv' = IF v.res = "Ok"
                      THEN [drv EXCEPT !.pc = "done", !.outcome = "validated"]
                      ELSE [drv EXCEPT !.idx = @ + 1, !.err = v.res]
    /\ UNCHANGED <<dnskey_record, ignore_time, signed, received, call>>
    /\ Frame("drv")

\* after the loop: the last error is reported; err.unwrap() panics if no
\* candidate was tried
DriverReport ==
    /\ drv.pc = "loop"
    /\ drv.idx > Len(drv.candidates)
    /\ drv' = [drv EXCEPT !.pc = "done",
                          !.outcome = IF drv.err = "None" THEN "panic" ELSE "could not be verified"]
    /\ UNCHANGED valVars
    /\ Frame("drv")

DrvNext == DriverStart \/ DriverTry \/ DriverReport

SpecDrvInit == DrvInit /\ IdleExcept("drv")

SpecDrv == SpecDrvInit /\ [][DrvNext]_vars

\* the signature base of RFC 4034, Section 3.1.8.1, for records as received:
\* the owner in canonical form with the wildcard restored (RFC 4035, Section
\* 5.3.2), the original TTL, the RDATA in canonical form and order
RFC4035_SignatureBase(records, rrsig) ==
    LET o == records[1].owner
        k == Field(rrsig, "labels")
        owner == IF Name_label_count(o) > k
                 THEN <<<<42>>>> \o Name_canonicalize(LastLabels(o, k))
                 ELSE Name_canonicalize(o)
        canon == [i \in 1..Len(records) |->
                    NonOptRecord_new(owner, records[i].class, Field(rrsig, "original_ttl"),
                                     Rdata_canonicalize(records[i].rdata))]
        rrs == dedup_by_key(permutation_sort(canon))
    IN  RRSIG_encode_without_signature(Rdata_canonicalize(rrsig))
            \o Flatten([i \in 1..Len(rrs) |-> NonOptRecord_encode(rrs[i])])

\* the key of the DNSKEY record verifies the RRSIG over the RRset as received
KeyVerifies(dnskey_rec) ==
    <<dnskey_rec.rdata.key, RFC4035_SignatureBase(received.records, rrsig_record.rdata),
      Field(rrsig_record.rdata, "signature")>> \in signed

\* C11 (as claimed): validate_result reports success iff at least one of the
\* candidate DNSKEYs verifies the signature over the RRset as received,
\* wherever that key stands in the list, also after failed attempts and for
\* an answer synthesized from a wildcard
C11_AcceptsIffSomeKeyVerifies ==
    (drv # NoParse /\ drv.pc = "done" /\ drv.candidates # <<>>) =>
        (drv.outcome = "validated"
            <=> \E i \in 1..Len(drv.candidates) : KeyVerifies(drv.candidates[i]))

-----------------------------------------------------------------------------
(* C12: the preconditions of RrSet::validate *)

\* the preconditions in the order they are checked, each with its error,
\* over the set, the RRSIG record and the clock as validate was called
Preconditions ==
    LET rr == received.rrsig_record
        rrsig == rr.rdata
        key == dnskey_record.rdata
        owner == received.records[1].owner
        inception == Field(rrsig, "signature_inception")
        expiration == Field(rrsig, "signature_expiration")
    IN  << <<Field(rrsig, "type_covered") = received.records[1].rtype, "RrsigDoesNotCoverType">>,
           <<Name_eq(rr.owner, owner), "RrsigHasDifferentOwner">>,
           <<rr.class = received.records[1].class, "RrsigHasDifferentClass">>,
           <<~serial_lt(expiration, inception), "RrsigExpirationBeforeInception">>,
           <<ignore_time \/ ~serial_lt(received.now, inception), "RrsigNotValidYet">>,
           <<ignore_time \/ ~serial_lt(expiration, received.now), "RrsigExpired">>,
           <<Name_zone_of(Field(rrsig, "signer_name"), owner), "RrsigSignerNotInParentZone">>,
           <<Name_eq(Field(rrsig, "signer_name"), dnskey_record.owner),
             "RrsigSignerDoesNotMatchDnskey">>,
           <<Field(rrsig, "key_tag") = DNSKEY_key_tag(key), "RrsigKeyTagDoesNotMatchDnskey">>,
           <<Field(rrsig, "algorithm") = key.algorithm, "RrsigAlgorithmDoesNotMatchDnskey">>,
           <<key.zone, "DnskeyNoZoneFlag">>,
           <<~key.revoked, "DnskeyRevoked">> >>

\* times at which the result of a call that ignores the time is probed
ProbeTimes == {<<0, 0>>, <<32768, 0>>, <<65535, 65535>>, U32(1700003150)}

\* C12: validate returns Ok only if every precondition holds; if one fails it
\* returns the error of the first that fails, without reaching the signature
\* and with the set and the RRSIG record (so every TTL) as they were; with
\* ignore_time the result is the same at every time
C12_Preconditions ==
    (call # NoParse /\ call.pc = "done") =>
        LET pre == Preconditions
            failing == {i \in 1..Len(pre) : ~pre[i][1]}
        IN  /\ call.res = "Ok" => failing = {}
            /\ failing # {} =>
                    /\ \E i \in failing : (\A j \in failing : i <= j) /\ call.res = pre[i][2]
                    /\ call.data_to_be_signed = <<>>
                    /\ rrset.records = received.records
                    /\ rrsig_record = received.rrsig_record
            /\ ignore_time =>
                    \A t \in ProbeTimes :
                        RrSet_validate([rrset EXCEPT !.records = received.records],
                                       received.rrsig_record, dnskey_record, TRUE, t, t,
                                       signed).res = call.res

\* a revoked key is refused, and nothing was touched
C12_Witness ==
    /\ call # NoParse /\ call.pc = "done" /\ call.res = "DnskeyRevoked"
    /\ call.data_to_be_signed = <<>>
    /\ rrset.records = received.records
    /\ rrsig_record = received.rrsig_record

\* an expired signature is accepted when the time is ignored
C12_WitnessIgnoreTime ==
    /\ call # NoParse /\ call.pc = "done" /\ call.res = "Ok"
    /\ ignore_time
    /\ serial_lt(Field(received.rrsig_record.rdata, "signature_expiration"), received.now)

-----------------------------------------------------------------------------
(* Cache machine: a record's rdata and its encoded_rdata *)

n_Example == <<L(<<"E", "x", "a", "m", "p", "l", "e">>), L(<<"c", "o", "m">>)>>

\* a message of a peer: example.com at offset 0, then an NS record whose owner
\* is a pointer to it and whose RDATA is ns.example.com, compressed or in full
PeerNsMessage(compress) ==
    LET target == IF compress THEN <<2, 110, 115, 192, 0>> ELSE NameWire(n_ns)
    IN  NameWire(n_example) \o <<192, 0>> \o U16Bytes(RecordType_code("NS")) \o U16Bytes(1)
            \o U32Bytes(U32(300)) \o U16Bytes(Len(target)) \o target

\* the RRset an RRSIG record of the cache machine is validated with
CacheRrset(owner) ==
    RrSet_new(<<NonOptRecord_new(owner, "IN", U32(300), rdata_A(<<192, 0, 2, 1>>))>>).val

\* records made by NonOptRecord::new and by Record::parse
CacheRecords ==
    {NonOptRecord_new(o, "IN", U32(300), x) :
        o \in {n_www, n_WWW, n_a},
        x \in {rdata_A(<<192, 0, 2, 1>>), rdata_NS(n_ns), rdata_NS(<<L(<<"N", "S">>)>> \o n_example)}}
    \cup {NonOptRecord_new(<<L(<<"w", "w", "w">>)>> \o signer, "IN", U32(500),
            [ZoneRrsig([owner |-> n_www, zone |-> <<rdata_A(<<192, 0, 2, 1>>)>>], 3, U32(1000),
                       DrvTimes, sig_genuine) EXCEPT !.f[8] = signer]) :
          signer \in {n_example, n_Example}}
    \cup {Record_parse(PeerNsMessage(compress), Len(NameWire(n_example)), "None").val :
          compress \in BOOLEAN}

CacheInit ==
    /\ cached \in CacheRecords
    /\ written = NoParse

\* cached.canonicalize(rrsig_labels, original_ttl)
CacheCanonicalize ==
    /\ \E rrsig_labels \in 0..MaxRrsigLabels :
        cached' = NonOptRecord_canonicalize(cached, rrsig_labels, U32(3600)).val
    /\ UNCHANGED written
    /\ Frame("cache")

\* *cached.rdata_mut() = x, for an RDATA of the record's type
CacheRdataMut ==
    /\ \E x \in {r.rdata : r \in CacheRecords} :
        /\ x.t = cached.rtype
        /\ cached' = [cached EXCEPT !.rdata = x]
    /\ UNCHANGED written
    /\ Frame("cache")

\* rrset.validate(&mut cached, dnskey, true) for an RRSIG record
CacheValidate ==
    /\ cached.rtype = RecordType_code("RRSIG")
    /\ cached' = RrSet_validate(CacheRrset(cached.owner), cached, DnskeyRecord(n_example, key_zone),
                                TRUE, DrvTimes[3], DrvTimes[3], {}).rrsig_record
    /\ UNCHANGED written
    /\ Frame("cache")

\* cached.encode_into(buf)
CacheEncode ==
    /\ written' = [bytes |-> NonOptRecord_encode(cached), rdata |-> cached.rdata,
                   encoded_rdata |-> cached.encoded_rdata]
    /\ UNCHANGED cached
    /\ Frame("cache")

CacheNext == CacheCanonicalize \/ CacheRdataMut \/ CacheValidate \/ CacheEncode

SpecCacheInit == CacheInit /\ IdleExcept("cache")

SpecCache == SpecCacheInit /\ [][CacheNext]_vars

\* C13 (as claimed): whenever a record is encoded, after any sequence of
\* parse, new, canonicalize, rdata_mut and validate, its cached encoded_rdata
\* is the encoding of its structured rdata at that moment
C13_CacheCoherent ==
    written # NoParse => written.encoded_rdata = Rdata_encode(written.rdata)

-----------------------------------------------------------------------------
(* Bitmap machine: the type bitmap of NSEC records *)

\* type codes: named and unknown ones, at both ends of three windows
TestTypeCodes == {0, 1, 8, 47, 255, 257, 1234, 65280, 65535}

BmInit ==
    /\ types \in SUBSET TestTypeCodes
    /\ bitmap = NoParse
    /\ bitmap_parsed = NoParse

\* NSEC::encode_type_bitmap_into(types, buf)
EncodeBitmap ==
    /\ bitmap = NoParse
    /\ bitmap' = [kind |-> "bytes", bytes |-> encode_type_bitmap(types)]
    /\ UNCHANGED <<types, bitmap_parsed>>
    /\ Frame("bm")

\* NSEC::parse_type_bitmap(msg, 0, rdlength) over the bytes written
ParseBitmap ==
    /\ bitmap # NoParse
    /\ bitmap_parsed = NoParse
    /\ bitmap_parsed' = parse_type_bitmap(bitmap.bytes, 0, 0, Len(bitmap.bytes), <<>>)
    /\ UNCHANGED <<types, bitmap>>
    /\ Frame("bm")

BmNext == EncodeBitmap \/ ParseBitmap

SpecBmInit == BmInit /\ IdleExcept("bm")

SpecBm == SpecBmInit /\ [][BmNext]_vars

\* the window blocks of a bitmap: <<window, length, bitmap bytes>> each
RECURSIVE WindowBlocks(_)
WindowBlocks(bytes) ==
    IF Len(bytes) < 2 THEN <<>>
    ELSE << <<bytes[1], bytes[2], SubSeq(bytes, 3, Min(Len(bytes), 2 + bytes[2]))>> >>
            \o WindowBlocks(SubSeq(bytes, 3 + bytes[2], Len(bytes)))

\* C14: parsing the encoded bitmap of a set of types returns exactly its
\* members, each once; the encoder writes one block per non-empty window, in
\* ascending window order, of 1 to 32 bytes with a nonzero last byte, and the
\* bit of type window*256 + i*8 + j is byte[i] & (0x80 >> j)
C14_BitmapRoundTrip ==
    /\ bitmap # NoParse =>
        LET blocks == WindowBlocks(bitmap.bytes)
        IN  /\ SumSeq([b \in 1..Len(blocks) |-> 2 + blocks[b][2]]) = Len(bitmap.bytes)
            /\ {blocks[b][1] : b \in 1..Len(blocks)} = {t \div 256 : t \in types}
            /\ \A a, b \in 1..Len(blocks) : a < b => blocks[a][1] < blocks[b][1]
            /\ \A b \in 1..Len(blocks) :
                /\ blocks[b][2] \in 1..32
                /\ Len(blocks[b][3]) = blocks[b][2]
                /\ blocks[b][3][blocks[b][2]] # 0
                /\ \A i \in 0..(blocks[b][2] - 1), j \in 0..7 :
                        (Bit(blocks[b][3][i + 1], 7 - j) # 0)
                            <=> (blocks[b][1] * 256 + i * 8 + j) \in types
    /\ bitmap_parsed # NoParse =>
        /\ bitmap_parsed.err = "Ok"
        /\ {bitmap_parsed.val[i] : i \in 1..Len(bitmap_parsed.val)} = types
        /\ Len(bitmap_parsed.val) = Cardinality(types)

\* types of three windows, unknown codes among them, came back
C14_Witness ==
    /\ bitmap_parsed # NoParse
    /\ bitmap_parsed.err = "Ok"
    /\ {0, 47, 1234, 65535} \subseteq types
    /\ Cardinality({t \div 256 : t \in types}) >= 3
    /\ Len(bitmap_parsed.val) = Cardinality(types)

-----------------------------------------------------------------------------
(* Serial machine: serial_lt *)

\* u32 values around 0, 2^16, 2^31 and 2^32
TestSerials ==
    {<<0, 0>>, <<0, 1>>, <<0, 65535>>, <<1, 0>>, <<25939, 64846>>, <<32767, 65535>>,
     <<32768, 0>>, <<32768, 1>>, <<32769, 0>>, <<58707, 64846>>, <<65535, 65534>>,
     <<65535, 65535>>}

SerInit ==
    /\ serials \in TestSerials \X TestSerials
    /\ serial_res = NoParse

\* serial_lt(a, b) and serial_lt(b, a)
SerialLt ==
    /\ serial_res = NoParse
    /\ serial_res' = [ab |-> serial_lt(serials[1], serials[2]),
                      ba |-> serial_lt(serials[2], serials[1])]
    /\ UNCHANGED serials
    /\ Frame("ser")

SerNext == SerialLt

SpecSerInit == SerInit /\ IdleExcept("ser")

SpecSer == SpecSerInit /\ [][SerNext]_vars

TwoTo31 == <<32768, 0>>

\* C15: serial_lt(a, b) iff (a < b and b - a < 2^31) or (a > b and
\* a - b > 2^31); it is irreflexive, never true in both directions, and false
\* in both directions when a and b are 2^31 apart
C15_SerialOrder ==
    serial_res # NoParse =>
        LET a == serials[1]
            b == serials[2]
        IN  /\ serial_res.ab <=>
                    \/ (U32Lt(a, b) /\ U32Lt(U32WrappingSub(b, a), TwoTo31))
                    \/ (U32Lt(b, a) /\ U32Lt(TwoTo31, U32WrappingSub(a, b)))
            /\ a = b => ~serial_res.ab
            /\ ~(serial_res.ab /\ serial_res.ba)
            /\ U32WrappingSub(a, b) = TwoTo31 => (~serial_res.ab /\ ~serial_res.ba)

\* 2^32 - 1 is before 0, and not the other way round
C15_Witness ==
    /\ serial_res # NoParse
    /\ serials = << <<65535, 65535>>, <<0, 0>> >>
    /\ serial_res.ab /\ ~serial_res.ba

\* 0 and 2^31 are 2^31 apart: neither is before the other
C15_WitnessAntipodal ==
    /\ serial_res # NoParse
    /\ serials = << <<0, 0>>, <<32768, 0>> >>
    /\ ~serial_res.ab /\ ~serial_res.ba

-----------------------------------------------------------------------------
(* C16: the extended RCODE of a response with an OPT record *)

ExtendedRcodes ==
    {"BADVERSBADSIG", "BADKEY", "BADTIME", "BADMODE", "BADNAME", "BADALG", "BADTRUNC",
     "BADCOOKIE"}

\* the message is a response with an extended RCODE whose last additional
\* record is an OPT record carrying that RCODE
ExtendedResponse ==
    /\ message # NoParse
    /\ message.header.qr
    /\ message.header.rcode \in ExtendedRcodes
    /\ message.additional_answers # <<>>
    /\ LET opt == message.additional_answers[Len(message.additional_answers)]
       IN  opt.kind = "OPT" /\ opt.rcode = message.header.rcode

\* C16 (as claimed): for such a response the header carries the low 4 bits
\* of the RCODE and the first byte of the OPT record's TTL slot its high 8
\* bits, and parsing the encoded message gives the RCODE back in the header
\* and in the OPT record
C16_ExtendedRcode ==
    ExtendedResponse =>
        LET r == message.header.rcode
            opt == message.additional_answers[Len(message.additional_answers)]
        IN  /\ encoded # NoParse =>
                /\ encoded.bytes[4] % 16 = RCodeValue(r) % 16
                /\ encoded.bytes[Len(encoded.bytes) - Len(OptRecord_encode(opt)) + 6]
                        = RCodeValue(r) \div 16
            /\ (msg_parsed # NoParse /\ ~message.header.flags.tc) =>
                /\ msg_parsed.err = "Ok"
                /\ msg_parsed.val.header.rcode = r
                /\ LET got == msg_parsed.val.additional_answers
                   IN  got[Len(got)].kind = "OPT" /\ got[Len(got)].rcode = r

-----------------------------------------------------------------------------
(* Raw machine: Name::parse on bytes as they arrive *)

\* length octets with each combination of the top two bits, and small values
\* that serve as lengths, label bytes and pointer offsets
RawOctets == {0, 1, 2, 64, 128, 192}

\* four labels of 63 bytes, in full (257 bytes), and as two labels of 63
\* bytes followed by a pointer to two more
LongNames ==
    LET l_63 == Repeat(97, 63) IN
    {Flatten([i \in 1..4 |-> <<63>> \o l_63]) \o <<0>>,
     Flatten([i \in 1..2 |-> <<63>> \o l_63]) \o <<0>>
        \o Flatten([i \in 1..2 |-> <<63>> \o l_63]) \o <<192, 0>>}

RawInit ==
    /\ input \in [bytes : SeqsUpTo(RawOctets, MaxRawLen), start : 0..2,
                compression : {"Allowed", "Prohibited"}]
               \cup [bytes : LongNames, start : {0, 129}, compression : {"Allowed"}]
    /\ name_res = NoParse

\* cursor.set_position(start); Name::parse(&mut cursor, compression)
RawParse ==
    /\ name_res = NoParse
    /\ name_res' = Name_parse(input.bytes, input.start, input.compression)
    /\ UNCHANGED input
    /\ Frame("raw")

RawNext == RawParse

SpecRawInit == RawInit /\ IdleExcept("raw")

SpecRaw == SpecRawInit /\ [][RawNext]_vars

\* the first length octet Name::parse reads, or 0 if there is none
FirstOctet == IF input.start < Len(input.bytes) THEN input.bytes[input.start + 1] ELSE 0

\* C17 (as claimed): a length octet whose top two bits are 01 or 10 makes
\* Name::parse fail with InvalidLabelType in both compression modes; it is
\* never followed as a pointer nor reported as CompressionProhibited
C17_InvalidLabelType ==
    (name_res # NoParse /\ FirstOctet \in 64..191) => name_res.err = "InvalidLabelType"

\* the offset the pointer at the start of the input names
FirstPointerOffset == (FirstOctet % 64) * 256 + input.bytes[input.start + 2]

\* C18 (as claimed): Name::parse with Compression::Allowed always returns,
\* with Ok or Err; a pointer to itself, a cycle of pointers, a forward
\* pointer and a pointer to or past the end of the message give an error
C18_PointersBounded ==
    (name_res # NoParse /\ input.compression = "Allowed") =>
        /\ name_res.err # "StackOverflow"
        /\ (FirstOctet >= 192 /\ input.start + 2 <= Len(input.bytes)
                /\ FirstPointerOffset >= input.start)
            => name_res.err # "Ok"

\* C19 (as claimed): a name that Name::parse returns is at most 255 bytes
\* long on the wire and each of its labels at most 63 bytes, the labels
\* reached through pointers included
C19_LengthLimits ==
    (name_res # NoParse /\ name_res.err = "Ok") =>
        /\ Len(NameWire(name_res.labels)) <= 255
        /\ \A i \in 1..Len(name_res.labels) : Len(name_res.labels[i]) <= 63

-----------------------------------------------------------------------------
(* Canonical-form machine: Name::canonicalize and Rdata::canonicalize, called
   repeatedly on one value *)

\* labels with upper and lower case letters, the bytes next to the letter
\* ranges ('@', '[') and a byte that is not ASCII
CanonLabels == {<<65>>, <<97>>, <<90, 64>>, <<91, 122>>, <<193>>}

\* names for the name fields of RDATA
CanonRdataNames ==
    {Name_root, <<L(<<"N", "S">>), L(<<"E", "x", "a", "m", "p", "l", "e">>)>>, <<<<97, 64, 90>>, <<91, 193>>>>}

\* a value for a field of each kind of RdataLayout, n for a name; the
\* strings and opaque bytes hold upper case letters
SampleField(kind, n) ==
    CASE kind = "u8" -> 65
      [] kind = "u16" -> 16706
      [] kind = "u32" -> <<16706, 17220>>
      [] kind = "ipv4" -> <<65, 66, 67, 68>>
      [] kind = "str" -> <<85, 97>>
      [] kind = "name" -> n
      [] kind = "name_nc" -> n
      [] kind = "rest" -> <<65, 98, 0, 90>>
      [] kind = "bitmap" -> <<1, 65, 90>>

\* the modelled variants; 0 is Rdata::Unknown
CanonTypes == {0, 1, 2, 5, 6, 12, 15, 17, 33, 35, 39, 46, 47}

\* an Rdata value of variant t with a as its first field if that is a name
\* and b as its other names
CanonRdata(t, a, b) ==
    [t |-> t, f |-> [i \in 1..Len(RdataLayout(t)) |->
                        SampleField(RdataLayout(t)[i][2], IF i = 1 THEN a ELSE b)]]

CanInit ==
    /\ \/ subject \in [kind : {"name"}, v : SeqsUpTo(CanonLabels, MaxLabels)]
       \/ \E t \in CanonTypes, a \in CanonRdataNames, b \in CanonRdataNames :
            subject = [kind |-> "rdata", v |-> CanonRdata(t, a, b)]
    /\ canonical = <<>>

\* name.canonicalize() / rdata.canonicalize(), on the value the previous call
\* left
CanonicalizeAgain ==
    /\ Len(canonical) < 2
    /\ LET x == IF canonical = <<>> THEN subject.v ELSE canonical[Len(canonical)]
       IN  canonical' = Append(canonical, IF subject.kind = "name"
                                          THEN Name_canonicalize(x)
                                          ELSE Rdata_canonicalize(x))
    /\ UNCHANGED subject
    /\ Frame("can")

CanNext == CanonicalizeAgain

SpecCanInit == CanInit /\ IdleExcept("can")

SpecCan == SpecCanInit /\ [][CanNext]_vars

\* the bytes of a value: the label bytes of a Name, the encoded RDATA
CanonBytes(x) == IF subject.kind = "name" THEN x ELSE Rdata_encode(x)

\* b is a with nothing changed but the case of ASCII letters
OnlyCaseChanged(a, b) ==
    /\ Len(a) = Len(b)
    /\ \A i \in 1..Len(a) :
        /\ Len(a[i]) = Len(b[i])
        /\ \A j \in 1..Len(a[i]) :
            \/ b[i][j] = a[i][j]
            \/ a[i][j] \in 65..90 /\ b[i][j] = a[i][j] + 32
            \/ a[i][j] \in 97..122 /\ b[i][j] = a[i][j] - 32

\* the variants RdataTrait::canonicalize is documented to change
CanonicalizedTypes ==
    {RecordType_code(n) : n \in {"NS", "CNAME", "SOA", "PTR", "MX", "RP", "NAPTR", "SRV",
                                 "DNAME", "RRSIG", "NSEC"}}

\* C20: canonicalizing a Name or an Rdata value twice gives, byte for byte,
\* what canonicalizing it once gives; Rdata::canonicalize changes nothing
\* but the case of the names embedded in NS, CNAME, SOA, PTR, MX, RP, NAPTR,
\* SRV, DNAME, RRSIG and NSEC
C20_CanonicalizeIdempotent ==
    /\ Len(canonical) = 2 =>
        /\ canonical[2] = canonical[1]
        /\ CanonBytes(canonical[2]) = CanonBytes(canonical[1])
    /\ (Len(canonical) >= 1 /\ subject.kind = "rdata") =>
        LET x == subject.v
            y == canonical[1]
            layout == RdataLayout(x.t)
        IN  /\ y.t = x.t
            /\ Len(y.f) = Len(x.f)
            /\ \A i \in 1..Len(layout) :
                IF x.t \in CanonicalizedTypes /\ layout[i][2] \in {"name", "name_nc"}
                THEN OnlyCaseChanged(x.f[i], y.f[i])
                ELSE y.f[i] = x.f[i]

\* an SOA whose two names both held upper case letters has been canonicalized
\* twice, and the first call changed its encoding
C20_Witness ==
    /\ Len(canonical) = 2
    /\ subject.kind = "rdata"
    /\ subject.v.t = RecordType_code("SOA")
    /\ subject.v.f[1] # canonical[1].f[1]
    /\ subject.v.f[2] # canonical[1].f[2]
    /\ Rdata_encode(subject.v) # Rdata_encode(canonical[1])

-----------------------------------------------------------------------------
(* Zone machine: Name::zone_of *)

\* labels a, A and Z
ZoneLabels == {<<97>>, <<65>>, <<90>>}

\* the valid names (root, plain and wildcard) of at most MaxLabels labels
ZoneNames == {n \in SeqsUpTo(ZoneLabels \cup {<<42>>}, MaxLabels) : FromAsciiAccepts(n)}

ZoneInit ==
    /\ zone_args \in [a : ZoneNames, b : ZoneNames]
    /\ zone_res = NoParse

\* a.zone_of(&b), a == b
ZoneOf ==
    /\ zone_res = NoParse
    /\ zone_res' = [zone_of |-> Name_zone_of(zone_args.a, zone_args.b),
                    eq |-> Name_eq(zone_args.a, zone_args.b)]
    /\ UNCHANGED zone_args
    /\ Frame("zone")

ZoneNext == ZoneOf

SpecZoneInit == ZoneInit /\ IdleExcept("zone")

SpecZone == SpecZoneInit /\ [][ZoneNext]_vars

\* the last k labels of n
LabelSuffix(n, k) == SubSeq(n, Len(n) - k + 1, Len(n))

\* C21 (as claimed): a.zone_of(b) is true iff the labels of a are a suffix of
\* the labels of b, compared as Name equality compares them (ignoring ASCII
\* case); a wildcard label of a without a counterpart in b makes it false
C21_ZoneOfIsSuffix ==
    zone_res # NoParse =>
        LET a == zone_args.a
            b == zone_args.b
        IN  zone_res.zone_of = (Len(a) <= Len(b) /\ Name_eq(a, LabelSuffix(b, Len(a))))

-----------------------------------------------------------------------------
(* Resolver machine: iter::query and iter::resolve against arbitrary servers.
   A record of a reply is [owner, rtype, data]: data is the target of an NS
   record and the address <<family, host>> of an A or AAAA record. *)

NoAddr == <<"None", 0>>

n_com == <<L(<<"c", "o", "m">>)>>

\* net::send_query_udp / _tcp / _tls / _http on success: the reply came from
\* `peer`; the nameserver after the call
send_query(connection_type, nameserver, peer) ==
    IF connection_type \in {"Udp", "Tcp", "Tls"}
    THEN [nameserver EXCEPT !.ip = peer]
    ELSE nameserver

\* the address a connection to the nameserver reaches: its ip if it has one,
\* else what the system resolver gives for its hostname
Peers(nameserver) ==
    IF nameserver.ip # NoAddr THEN {nameserver.ip} ELSE {<<"V4", 9>>, <<"V6", 9>>}

\* two of the thirteen root servers of each family
ROOT_IPV6 ==
    {[hostname |-> <<<<c>>>>, ip |-> <<"V6", c>>, port |-> 53] : c \in {97, 98}}

ROOT_IPV4 ==
    {[hostname |-> <<<<c>>>>, ip |-> <<"V4", c>>, port |-> 53] : c \in {97, 98}}

as_nonopt(rec) == rec.rtype # "OPT"

\* the index of the first element of s among those in idx, 0 if there is none
FirstOf(idx) == IF idx = {} THEN 0 ELSE CHOOSE i \in idx : \A j \in idx : i <= j

\* iter::find_answer: the index in reply.answers, 0 for None
find_answer(md, reply) ==
    FirstOf({i \in 1..Len(reply.answers) :
                /\ as_nonopt(reply.answers[i])
                /\ Name_eq(reply.answers[i].owner, md.name)
                /\ reply.answers[i].rtype = md.qtype})

\* iter::filter_ns: the indices in reply.authoritative_answers
filter_ns(reply) ==
    {i \in 1..Len(reply.authoritative_answers) :
        /\ as_nonopt(reply.authoritative_answers[i])
        /\ reply.authoritative_answers[i].rtype = "NS"}

\* the closure find_glue_with_type of iter::find_glue: [found, zone, hostname, ip]
find_glue_with_type(typ, reply) ==
    LET auth == reply.authoritative_answers
        add == reply.additional_answers
        servers(owner) == {n \in filter_ns(reply) : Name_eq(auth[n].data, owner)}
        i == FirstOf({k \in 1..Len(add) :
                        as_nonopt(add[k]) /\ add[k].rtype = typ /\ servers(add[k].owner) # {}})
    IN  IF i = 0 THEN [found |-> FALSE, zone |-> <<>>, hostname |-> <<>>, ip |-> NoAddr]
        ELSE [found |-> TRUE, zone |-> auth[FirstOf(servers(add[i].owner))].owner,
              hostname |-> add[i].owner, ip |-> add[i].data]

\* iter::find_glue
find_glue(prefer_ipv6, reply) ==
    IF prefer_ipv6
    THEN IF find_glue_with_type("AAAA", reply).found
         THEN find_glue_with_type("AAAA", reply)
         ELSE find_glue_with_type("A", reply)
    ELSE find_glue_with_type("A", reply)

\* the locals of resolve at its start; did records, for each reply parsed,
\* the zone that was asked, the reply and the branch taken on it; fallback
\* tells that the sub-resolution under way is the second one, for A; res is
\* the result of the last sub-resolution
NewFrame(md, nameserver) ==
    [md |-> md, root_server |-> nameserver, use_ipv6 |-> nameserver.ip[1] = "V6",
     nameserver |-> nameserver, current_queried_zone |-> Name_root, replies |-> <<>>,
     did |-> <<>>, fallback |-> FALSE, res |-> NoParse]

\* the record resolve returns when the reply has nothing to go on
OptPlaceholder == [owner |-> Name_root, rtype |-> "OPT", data |-> NoAddr]

\* what follows when the innermost activation of `stack` returns r.  For the
\* outermost one that is the rest of iter::query: return r if it is Ok or was
\* the second run, otherwise run resolve again from root4.  For a nested one
\* it is the rest of the select_ns branch of the caller: ask for A after a
\* failed AAAA, else take the address out of the record.
Return(stack, r, rs, root4) ==
    IF Len(stack) = 1
    THEN LET done == [rs EXCEPT ![Len(rs)].res = r]
         IN  IF r.err = "Ok" \/ Len(rs) = 2
             THEN [frames |-> <<>>, runs |-> done, query_res |-> [err |-> r.err]]
             ELSE [frames |-> <<NewFrame(stack[1].md, root4)>>,
                   runs |-> Append(done, [root_server |-> root4, res |-> NoParse]),
                   query_res |-> NoParse]
    ELSE LET caller == stack[Len(stack) - 1]
             below == SubSeq(stack, 1, Len(stack) - 2)
             args2 == stack[Len(stack)].md
         IN  IF r.err # "Ok" /\ caller.use_ipv6 /\ ~caller.fallback
             THEN [frames |-> below \o <<[caller EXCEPT !.fallback = TRUE, !.res = r],
                                         NewFrame([args2 EXCEPT !.qtype = "A"],
                                                  caller.root_server)>>,
                   runs |-> rs, query_res |-> NoParse]
             ELSE IF r.err = "Ok" /\ as_nonopt(r.rec)
                     /\ r.rec.rtype # (IF caller.use_ipv6 THEN "AAAA" ELSE "A")
             THEN [frames |-> <<>>, runs |-> rs, query_res |-> [err |-> "panic"]]
             ELSE [frames |-> below \o
                        <<[caller EXCEPT !.fallback = FALSE, !.res = r,
                                         !.nameserver.ip =
                                            IF r.err = "Ok" /\ as_nonopt(r.rec)
                                            THEN r.rec.data ELSE NoAddr]>>,
                   runs |-> rs, query_res |-> NoParse]

\* replies of a server to the query md, as <<answers, authority, additional>>
rr(owner, rtype, data) == [owner |-> owner, rtype |-> rtype, data |-> data]

Reply(answers, authority, additional) ==
    [answers |-> answers, authoritative_answers |-> authority,
     additional_answers |-> additional]

ServerReplies(md, zone) ==
    LET answer == rr(md.name, md.qtype, <<IF md.qtype = "AAAA" THEN "V6" ELSE "V4", 1>>)
        other == rr(md.name, "TXT", NoAddr)
        ns(z) == rr(z, "NS", n_ns)
        a == rr(n_ns, "A", <<"V4", 2>>)
        aaaa == rr(<<L(<<"N", "S">>)>> \o n_example, "AAAA", <<"V6", 2>>)
    IN  << Reply(<<other, answer>>, <<>>, <<OptPlaceholder>>),
           Reply(<<answer>>, <<ns(n_com)>>, <<a, aaaa>>),
           Reply(<<other>>, <<rr(n_com, "SOA", NoAddr), ns(n_com)>>, <<OptPlaceholder, a, aaaa>>),
           Reply(<<>>, <<ns(n_com)>>, <<aaaa>>),
           Reply(<<>>, <<ns(n_com)>>, <<a>>),
           Reply(<<>>, <<ns(zone)>>, <<a, aaaa>>),
           Reply(<<>>, <<ns(n_com)>>, <<rr(n_com, "A", <<"V4", 3>>)>>),
           Reply(<<>>, <<>>, <<OptPlaceholder>>) >>

ConnectionTypes == {"Udp", "Tcp", "Tls", "HttpGet", "HttpPost", "HttpsGet", "HttpsPost"}

IterInit ==
    /\ metadata \in [name : {n_example}, qtype : {"A"},
                     connection_type : {"Udp"}, validate_dnssec : BOOLEAN]
    /\ frames = <<>>
    /\ runs = <<>>
    /\ query_res = NoParse
    /\ sends = 0

\* iter::query up to its first call of resolve
Query ==
    /\ runs = <<>>
    /\ \E root6 \in ROOT_IPV6 :
        /\ frames' = <<NewFrame(metadata, root6)>>
        /\ runs' = <<[root_server |-> root6, res |-> NoParse]>>
    /\ UNCHANGED <<metadata, query_res, sends>>
    /\ Frame("iter")

\* one turn of the loop of the innermost resolve, with `failure` or `reply`
\* coming from the network, and whatever the return of resolve sets off
Hop ==
    /\ frames # <<>>
    /\ sends < MaxSends
    /\ sends' = sends + 1
    /\ LET f == frames[Len(frames)] IN
       \E root4 \in ROOT_IPV4, peer \in Peers(f.nameserver) :
        \/ \E failure \in {"transport", "parse"}
                            \cup (IF f.md.validate_dnssec THEN {"dnssec"} ELSE {}) :
            LET next == Return(frames, [err |-> failure], runs, root4)
            IN  /\ frames' = next.frames
                /\ runs' = next.runs
                /\ query_res' = next.query_res
        \/ \E k \in 1..Len(ServerReplies(f.md, f.current_queried_zone)) :
            LET reply == ServerReplies(f.md, f.current_queried_zone)[k]
                nameserver == send_query(f.md.connection_type, f.nameserver, peer)
                logged == [f EXCEPT !.nameserver = nameserver,
                                    !.replies = Append(@, [zone |-> f.current_queried_zone,
                                                           nameserver |-> nameserver,
                                                           reply |-> reply])]
                hop(branch) == [branch |-> branch, zone |-> f.current_queried_zone,
                                reply |-> reply]
                answer == find_answer(f.md, reply)
                glue == find_glue(f.use_ipv6, reply)
                ends(rec, branch) ==
                    LET next == Return(frames,
                                       [err |-> "Ok", rec |-> rec, replies |-> logged.replies,
                                        did |-> Append(f.did, hop(branch))],
                                       runs, root4)
                    IN  /\ frames' = next.frames
                        /\ runs' = next.runs
                        /\ query_res' = next.query_res
            IN  IF answer # 0 THEN ends(reply.answers[answer], "answer")
                ELSE IF glue.found
                THEN /\ frames' = [frames EXCEPT ![Len(frames)] =
                            [logged EXCEPT !.nameserver.ip = glue.ip,
                                           !.nameserver.hostname = glue.hostname,
                                           !.current_queried_zone = glue.zone,
                                           !.did = Append(@, hop("glue"))]]
                     /\ UNCHANGED <<runs, query_res>>
                ELSE IF filter_ns(reply) # {}
                THEN \E n \in filter_ns(reply) :
                        LET chosen == reply.authoritative_answers[n]
                            args2 == [f.md EXCEPT !.name = chosen.data,
                                                  !.qtype = IF f.use_ipv6 THEN "AAAA" ELSE "A"]
                        IN  /\ frames' = [frames EXCEPT ![Len(frames)] =
                                    [logged EXCEPT !.nameserver.hostname = chosen.data,
                                                   !.current_queried_zone = chosen.owner,
                                                   !.did = Append(@, hop("select_ns"))]]
                                    \o <<NewFrame(args2, f.root_server)>>
                            /\ UNCHANGED <<runs, query_res>>
                ELSE ends(OptPlaceholder, "none")
    /\ UNCHANGED metadata
    /\ Frame("iter")

IterNext == Query \/ Hop

SpecIterInit == IterInit /\ IdleExcept("iter")

SpecIter == SpecIterInit /\ [][IterNext]_vars

\* the labels of parent are a proper suffix of those of child
ProperDescendant(child, parent) ==
    Len(parent) < Len(child) /\ Name_eq(parent, LabelSuffix(child, Len(parent)))

\* the zones one activation of resolve has queried, and the one it will query
\* next
ZonesOf(f) == [i \in 1..Len(f.replies) |-> f.replies[i].zone] \o <<f.current_queried_zone>>

\* C22 (as claimed): the walk of resolve is bounded: every hop that goes on
\* moves current_zone to a proper descendant of the zone just queried, which
\* is an ancestor of (or is) the query name, and no sub-resolution of an NS
\* name runs inside a sub-resolution of the same name and type
C22_ResolveBounded ==
    /\ \A n \in 1..Len(frames) :
        LET zones == ZonesOf(frames[n])
        IN  \A i \in 1..(Len(zones) - 1) :
                /\ ProperDescendant(zones[i + 1], zones[i])
                /\ Len(zones[i + 1]) <= Len(frames[n].md.name)
                /\ Name_eq(zones[i + 1], LabelSuffix(frames[n].md.name, Len(zones[i + 1])))
    /\ \A i, j \in 2..Len(frames) : i < j => frames[i].md # frames[j].md

\* C23 (as claimed): query runs resolve from an IPv6 root server and once
\* more from an IPv4 root server iff the first run failed with a transport
\* error; a parse or DNSSEC failure of the first run is returned without a
\* second run, and the result of the second run is returned as it is
C23_RetryOnTransportOnly ==
    /\ Len(runs) <= 2
    /\ Len(runs) >= 1 => runs[1].root_server \in ROOT_IPV6
    /\ Len(runs) = 2 =>
        /\ runs[2].root_server \in ROOT_IPV4
        /\ runs[1].res.err = "transport"
        /\ runs[2].res # NoParse => (query_res # NoParse /\ query_res.err = runs[2].res.err)
    /\ (Len(runs) >= 1 /\ runs[1].res # NoParse /\ runs[1].res.err \in {"parse", "dnssec"}) =>
        /\ Len(runs) = 1
        /\ query_res # NoParse
        /\ query_res.err = runs[1].res.err

\* the records of a section that are not OPT records
NonOpt(section) == {i \in 1..Len(section) : section[i].rtype # "OPT"}

\* the glue of a reply: the indices of the A and AAAA records of Additional
\* whose owner is the target of an NS record of Authority
GlueOf(reply) ==
    {i \in NonOpt(reply.additional_answers) :
        /\ reply.additional_answers[i].rtype \in {"A", "AAAA"}
        /\ \E n \in NonOpt(reply.authoritative_answers) :
            /\ reply.authoritative_answers[n].rtype = "NS"
            /\ Name_eq(reply.authoritative_answers[n].data, reply.additional_answers[i].owner)}

\* the branch the stated priority order gives for a reply to the query md
ExpectedBranch(md, reply) ==
    IF \E i \in NonOpt(reply.answers) :
            Name_eq(reply.answers[i].owner, md.name) /\ reply.answers[i].rtype = md.qtype
    THEN "answer"
    ELSE IF GlueOf(reply) # {} THEN "glue"
    ELSE IF \E n \in NonOpt(reply.authoritative_answers) :
                reply.authoritative_answers[n].rtype = "NS"
    THEN "select_ns"
    ELSE "none"

\* the resolve activations that can be inspected: the running ones, and the
\* results of the finished runs
Walks ==
    [n \in 1..Len(frames) |-> frames[n]]
    \o SelectSeq([n \in 1..Len(runs) |->
                    IF runs[n].res # NoParse /\ runs[n].res.err = "Ok"
                    THEN [md |-> metadata, replies |-> runs[n].res.replies,
                          did |-> runs[n].res.did, rec |-> runs[n].res.rec,
                          use_ipv6 |-> runs[n].root_server.ip[1] = "V6"]
                    ELSE [md |-> metadata, replies |-> <<>>, did |-> <<>>,
                          use_ipv6 |-> FALSE]],
                 LAMBDA w : w.did # <<>>)

\* C25 (as claimed): each reply is classified in the order answer, glue (A or
\* AAAA, of the root server's family when there is one), NS without glue,
\* nothing; an answer ends the walk with that record; chosen glue gives the
\* next nameserver its ip and hostname and the NS owner as zone; one entry is
\* logged per hop, in order
C25_HopPriority ==
    \A n \in 1..Len(Walks) :
        LET w == Walks[n]
        IN  /\ Len(w.replies) = Len(w.did)
            /\ \A i \in 1..Len(w.did) :
                /\ w.replies[i].reply = w.did[i].reply
                /\ w.replies[i].zone = w.did[i].zone
                /\ w.did[i].branch = ExpectedBranch(w.md, w.did[i].reply)
            /\ (n <= Len(frames) /\ w.did # <<>> /\ w.did[Len(w.did)].branch = "glue"
                    /\ n = Len(frames)) =>
                LET reply == w.did[Len(w.did)].reply
                    add == reply.additional_answers
                    family == IF w.use_ipv6 THEN "AAAA" ELSE "A"
                IN  \E g \in GlueOf(reply) :
                        /\ w.nameserver.ip = add[g].data
                        /\ w.nameserver.hostname = add[g].owner
                        /\ (\E h \in GlueOf(reply) : add[h].rtype = family)
                            => add[g].rtype = family
                        /\ \E m \in NonOpt(reply.authoritative_answers) :
                            /\ reply.authoritative_answers[m].rtype = "NS"
                            /\ Name_eq(reply.authoritative_answers[m].data, add[g].owner)
                            /\ w.current_queried_zone = reply.authoritative_answers[m].owner
            /\ (n > Len(frames) /\ w.did[Len(w.did)].branch = "answer") =>
                LET reply == w.did[Len(w.did)].reply
                IN  \E i \in NonOpt(reply.answers) :
                        /\ w.rec = reply.answers[i]
                        /\ Name_eq(w.rec.owner, w.md.name)
                        /\ w.rec.rtype = w.md.qtype

\* C26 (as claimed): after an NS-only referral the NS name is resolved from
\* the original root server, for AAAA if that server is IPv6 and for A
\* otherwise, and for A after a failed AAAA; the address of the record
\* obtained becomes the ip of the next nameserver, None if there is no such
\* record, the NS name its hostname and the NS owner the zone; resolve never
\* aborts
C26_NsOnlyReferral ==
    /\ query_res # NoParse => query_res.err # "panic"
    /\ \A n \in 1..Len(frames) :
        LET f == frames[n]
        IN  (f.did # <<>> /\ f.did[Len(f.did)].branch = "select_ns") =>
                /\ \E m \in NonOpt(f.did[Len(f.did)].reply.authoritative_answers) :
                    LET ns == f.did[Len(f.did)].reply.authoritative_answers[m]
                    IN  /\ ns.rtype = "NS"
                        /\ f.nameserver.hostname = ns.data
                        /\ f.current_queried_zone = ns.owner
                /\ n < Len(frames) =>
                    /\ frames[n + 1].root_server = f.root_server
                    /\ frames[n + 1].md.name = f.nameserver.hostname
                    /\ frames[n + 1].md.qtype =
                            IF f.use_ipv6 /\ ~f.fallback THEN "AAAA" ELSE "A"
                    /\ f.fallback => (f.res # NoParse /\ f.res.err # "Ok")
                /\ n = Len(frames) =>
                    /\ f.res # NoParse
                    /\ f.nameserver.ip =
                            IF f.res.err = "Ok" /\ f.res.rec.rtype \in {"A", "AAAA"}
                            THEN f.res.rec.data ELSE NoAddr

-----------------------------------------------------------------------------
(* RrSet::validate: what an error leaves behind *)

\* C24: while validate runs and when it returns an error (a precondition,
\* canonicalization, the algorithm, the key, the signature), the ttl of
\* rrsig_record is what it was before the call; only Ok(()) changes it
C24_ErrorKeepsRrsigTtl ==
    (call # NoParse /\ ~(call.pc = "done" /\ call.res = "Ok")) =>
        rrsig_record.ttl = received.rrsig_ttl

\* validate returned InvalidSignature for an RRSIG whose ttl a success would
\* have lowered
C24_Witness ==
    /\ call # NoParse
    /\ call.pc = "done"
    /\ call.res = "InvalidSignature"
    /\ Validate_new_ttl(call.rrset_received_ttl, rrsig_record.rdata, rrsig_record.ttl, clock)
            # rrsig_record.ttl

-----------------------------------------------------------------------------
(* validate_result: the outcome reported *)

\* C27 (as claimed): validate_result ends by reporting one outcome: no DNSKEY
\* for an empty key list, else the RrSet error, else no RRSIG, else success
\* at the first candidate that validates, else the error of the last
\* candidate tried; with keys but no candidate of the RRSIG's key tag a
\* failure is reported
C27_OneOutcome ==
    (drv # NoParse /\ drv.pc = "done") =>
        LET parts == PartitionAnswers(drv.answers, 1, drv.qtype, <<>>, <<>>)
            set == RrSet_new(parts.rrset_records)
        IN  IF drv.dnskeys = <<>> THEN drv.outcome = "no DNSKEY record found"
            ELSE IF set.err # "Ok" THEN drv.outcome = set.err
            ELSE IF FindRrsig(parts.rrsig_records, drv.qtype) = 0
            THEN drv.outcome = "no RRSIG record found"
            ELSE \/ drv.outcome = "validated" /\ drv.idx \in 1..Len(drv.candidates)
                 \/ /\ drv.outcome = "could not be verified"
                    /\ drv.idx = Len(drv.candidates) + 1
                    /\ drv.candidates # <<>> => drv.err # "None"

-----------------------------------------------------------------------------
(* Send machine: util::send_query over each connection type *)

\* Nameserver.hostname == None
NoHost == <<<<>>>>

\* the Nameservers Nameserver::from_metadata and the resolver build (an ip or
\* a hostname), with the hostname the argument parser demands for TLS and HTTP
SendInit ==
    /\ send_args \in
        {a \in [nameserver : [hostname : {NoHost, n_ns},
                              ip : {NoAddr, <<"V4", 1>>, <<"V6", 1>>},
                              port : {53, 853}],
                connection_type : ConnectionTypes] :
            /\ a.nameserver.hostname # NoHost \/ a.nameserver.ip # NoAddr
            /\ a.connection_type \notin {"Udp", "Tcp"} => a.nameserver.hostname # NoHost}
    /\ send_res = NoParse

\* send_query(connection_type, bufsize, &mut nameserver, &data): it fails
\* before a connection exists, fails after one exists, or succeeds; UDP, TCP
\* and TLS connect to the ip if there is one, HTTP always to the hostname
SendQuery ==
    /\ send_res = NoParse
    /\ LET ns == send_args.nameserver
           ct == send_args.connection_type
       IN  \E peer \in (IF ct \in {"Udp", "Tcp", "Tls"} THEN Peers(ns)
                        ELSE Peers([ns EXCEPT !.ip = NoAddr])),
              end \in {"Ok", "connect", "io"} :
            send_res' =
                [err |-> end, peer |-> peer,
                 nameserver |-> IF end = "Ok" THEN send_query(ct, ns, peer)
                                ELSE IF end = "io" /\ ct \in {"Tcp", "Tls"}
                                THEN [ns EXCEPT !.ip = peer]
                                ELSE ns]
    /\ UNCHANGED send_args
    /\ Frame("send")

SendNext == SendQuery

SpecSendInit == SendInit /\ IdleExcept("send")

SpecSend == SpecSendInit /\ [][SendNext]_vars

\* C28 (as claimed): after a successful send_query, over any connection
\* type, nameserver.ip is the address of the peer that replied, also for a
\* nameserver given by hostname only; hostname and port are unchanged
C28_PeerIpRecorded ==
    (send_res # NoParse /\ send_res.err = "Ok") =>
        /\ send_res.nameserver.ip = send_res.peer
        /\ send_res.nameserver.hostname = send_args.nameserver.hostname
        /\ send_res.nameserver.port = send_args.nameserver.port

-----------------------------------------------------------------------------
(* Name machine: the public operations of Name applied one after another *)

\* labels passed to append_label and prepend_label: a, Z, -a (refused), one
\* of 63 bytes and one of 64 bytes
OpsLabels == {<<97>>, <<90>>, <<45, 97>>, Repeat(97, 63), Repeat(97, 64)}

\* names returned by Name::from_ascii: root, a, Z.a, *.a and a name of two
\* labels of 63 bytes
OpsNames ==
    {Name_root, <<<<97>>>>, <<<<90>>, <<97>>>>, <<<<42>>, <<97>>>>,
     <<Repeat(97, 63), Repeat(97, 63)>>}

OpsInit ==
    /\ name_val \in OpsNames
    /\ name_op = NoParse
    /\ ops = 0

\* the bookkeeping shared by the operations
Applied(op, res, after) ==
    /\ ops < MaxOps
    /\ ops' = ops + 1
    /\ name_op' = [op |-> op, res |-> res, before |-> name_val]
    /\ name_val' = after
    /\ Frame("ops")

AppendName == \E other \in OpsNames :
    Applied("append_name", "Ok", Name_append_name(name_val, other))

PrependName == \E other \in OpsNames :
    Applied("prepend_name", "Ok", Name_prepend_name(name_val, other))

AppendLabel == \E label \in OpsLabels :
    Applied("append_label", Name_append_label(name_val, label).err,
            Name_append_label(name_val, label).name)

PrependLabel == \E label \in OpsLabels :
    Applied("prepend_label", Name_prepend_label(name_val, label).err,
            Name_prepend_label(name_val, label).name)

PopFrontLabel == Applied("pop_front_label", "Ok", Name_pop_front_label(name_val))

PopBackLabel == Applied("pop_back_label", "Ok", Name_pop_back_label(name_val))

PrependWildcard == Applied("prepend_wildcard", "Ok", Name_prepend_wildcard(name_val))

MakeWildcard == Applied("make_wildcard", "Ok", Name_make_wildcard(name_val))

CanonicalizeName == Applied("canonicalize", "Ok", Name_canonicalize(name_val))

OpsNext ==
    \/ AppendName \/ PrependName \/ AppendLabel \/ PrependLabel \/ PopFrontLabel
    \/ PopBackLabel \/ PrependWildcard \/ MakeWildcard \/ CanonicalizeName

SpecOpsInit == OpsInit /\ IdleExcept("ops")

SpecOps == SpecOpsInit /\ [][OpsNext]_vars

\* the label is 1..=63 bytes of [A-Za-z0-9_-] and neither begins nor ends
\* with '-'
ValidLabel(label) ==
    /\ Len(label) \in 1..63
    /\ \A i \in 1..Len(label) : IsAsciiAlphanumeric(label[i]) \/ label[i] \in {95, 45}
    /\ label[1] # 45
    /\ label[Len(label)] # 45

\* C29 (as claimed): every Name built from from_ascii names by the public
\* operations has valid labels, a '*' label only in first position and a
\* wire length of at most 255; prepend_wildcard and make_wildcard leave a
\* wildcard name unchanged, make_wildcard leaves the root unchanged
C29_NameStaysValid ==
    /\ \A i \in 1..Len(name_val) :
        \/ ValidLabel(name_val[i])
        \/ i = 1 /\ name_val[i] = <<42>>
    /\ Len(NameWire(name_val)) <= 255
    /\ (name_op # NoParse /\ name_op.op \in {"prepend_wildcard", "make_wildcard"}
            /\ Name_is_wildcard(name_op.before)) => name_val = name_op.before
    /\ (name_op # NoParse /\ name_op.op = "make_wildcard" /\ Name_is_root(name_op.before))
        => name_val = name_op.before

-----------------------------------------------------------------------------
(* Section machine: Message::parse_records over a section of two records,
   the first with a declared RDLENGTH that need not be the length of its
   fields *)

\* types of the first record: A, NS, SOA, MX, SRV, RRSIG, NSEC and one parsed
\* as Rdata::Unknown
SecTypes == {RecordType_code(n) : n \in {"A", "NS", "SOA", "MX", "SRV", "RRSIG", "NSEC"}} \cup {99}

\* owner and RDATA names of the section
SecNames == {Name_root, <<<<97>>>>, <<<<90>>, <<97>>>>}

\* the bytes of a record of type t whose RDLENGTH field holds rdlength
SecRecord(owner, t, rdlength, rdata) ==
    NameWire(owner) \o U16Bytes(t) \o U16Bytes(Class_encode("IN")) \o U32Bytes(U32(300))
        \o U16Bytes(rdlength) \o rdata

\* the fields of an RDATA of type t, its names written in full
SecFields(t, n) ==
    Flatten([i \in 1..Len(RdataLayout(t)) |-> PeerField(RdataLayout(t)[i][2], NameWire(n))])

SecInit ==
    /\ \E owner \in SecNames, n \in SecNames, t \in SecTypes, pad \in -MaxCut..MaxPad :
        LET fields == SecFields(t, n)
            rdlength == Len(fields) + pad
            rdata == fields \o Repeat(0, IF pad > 0 THEN pad ELSE 0)
        IN  /\ rdlength >= 0
            /\ sec_msg = SecRecord(owner, t, rdlength, rdata)
                            \o SecRecord(n, RecordType_code("A"), 4, <<192, 0, 2, 1>>)
            /\ sec_rec = [rtype |-> t, rdlength |-> rdlength, fields |-> Len(fields),
                          rdata_start |-> Len(NameWire(owner)) + 10]
    /\ sec_pos = 0
    /\ sec_out = <<>>

\* one turn of the loop of Message::parse_records with ancount = 2
ParseNextRecord ==
    /\ Len(sec_out) < 2
    /\ sec_out # <<>> => sec_out[Len(sec_out)].err = "Ok"
    /\ LET res == Record_parse(sec_msg, sec_pos, "None")
       IN  /\ sec_out' = Append(sec_out, [err |-> res.err, val |-> res.val, at |-> sec_pos])
           /\ sec_pos' = res.pos
    /\ UNCHANGED <<sec_msg, sec_rec>>
    /\ Frame("sec")

SecNext == ParseNextRecord

SpecSecInit == SecInit /\ IdleExcept("sec")

SpecSec == SpecSecInit /\ [][SecNext]_vars

\* C30 (as claimed): after Record::parse returns Ok the cursor is at RDATA
\* start + RDLENGTH, so the next record is parsed from the byte after the
\* declared RDATA; the rdata is what the RDLENGTH bytes kept as encoded_rdata
\* parse to; an RDLENGTH too small for the fixed part gives a ParseError
C30_CursorAfterRdata ==
    /\ \A i \in 1..Len(sec_out) : sec_out[i].err # "Panic"
    /\ (Len(sec_out) >= 1 /\ sec_out[1].err = "Ok") =>
        LET first == sec_out[1].val
            alone == Record_parse_rdata(sec_rec.rtype, first.encoded_rdata, 0, sec_rec.rdlength)
            after == IF Len(sec_out) = 1 THEN sec_pos ELSE sec_out[2].at
        IN  /\ after = sec_rec.rdata_start + sec_rec.rdlength
            /\ Len(first.encoded_rdata) = sec_rec.rdlength
            /\ alone.err = "Ok"
            /\ alone.val = first.rdata
            /\ alone.pos = sec_rec.rdlength

====
